---- MODULE Spec2Model ----
(***************************************************************************)
(* Model of the metadata validation engine: the ConfigLoader singleton,    *)
(* the construction of GeoNetworkValidator from the loaded rule            *)
(* configuration, and GeoNetworkValidator.validate with the rule classes   *)
(* it dispatches to.                                                       *)
(*                                                                         *)
(* Python values are represented as follows.                               *)
(*   str            a TLA+ string (Len, SubSeq and \o act on strings)      *)
(*   None / a value <<>> / <<v>>  (None, Some(v))                          *)
(*   an outcome     [kind |-> "return", value |-> v] or                    *)
(*                  [kind |-> "raise", exc |-> "NameError"]                *)
(*   a raw document a sequence of lexical tokens (start tag, end tag,      *)
(*                  character data, a tag cut off before its ">")          *)
(*   a parsed tree  the sequence of the elements below the root, in        *)
(*                  document order, each with its path from the root       *)
(***************************************************************************)
EXTENDS Integers, Sequences, FiniteSets, TLC

VARIABLES
    files,      \* the configuration files on disk: path -> None | Some(toml)
    loader,     \* ConfigLoader: the class attributes and the one instance
    validator,  \* the GeoNetworkValidator the application holds, or None
    last,       \* the last call made and how it ended
    memo,       \* one earlier validate call on the current validator
    workers,    \* the validate calls in progress: worker -> its frame
    job,        \* the BatchJob the application holds, or None
    conn        \* the GeoNetworkConnector the application holds, or None

vars == <<files, loader, validator, last, memo, workers, job, conn>>

----------------------------------------------------------------------------
(* Python values *)

None == <<>>
Some(v) == <<v>>
IsNone(x) == x = <<>>
Val(x) == x[1]

Return(v) == [kind |-> "return", value |-> v]
Raise(e) == [kind |-> "raise", exc |-> e]
IsRaise(o) == o.kind = "raise"

\* a call of the program: the operation, its argument, its outcome and what
\* it evaluated on the way
Call(op, arg, out, evaluated) ==
    [op |-> op, arg |-> arg, out |-> out, evaluated |-> evaluated]

Range(s) == {s[i] : i \in 1..Len(s)}

\* a local variable: F applied to the value of e, e being evaluated once
Bind(e, F(_)) == CHOOSE r \in {F(v) : v \in {e}} : TRUE

----------------------------------------------------------------------------
(* str methods *)

StartsWith(s, p) == Len(s) >= Len(p) /\ SubSeq(s, 1, Len(p)) = p

\* sub in s
Contains(s, sub) ==
    \E i \in 1..(Len(s) - Len(sub) + 1) : SubSeq(s, i, i + Len(sub) - 1) = sub

\* the position of the first occurrence of sub in s, 0 when there is none
IndexOf(s, sub) ==
    IF Contains(s, sub)
    THEN CHOOSE i \in 1..(Len(s) - Len(sub) + 1) :
            /\ SubSeq(s, i, i + Len(sub) - 1) = sub
            /\ \A j \in 1..(i - 1) : SubSeq(s, j, j + Len(sub) - 1) # sub
    ELSE 0

IsSpace(c) == c \in {" ", "\n", "\t", "\r"}

RECURSIVE LStrip(_)
LStrip(s) ==
    IF Len(s) > 0 /\ IsSpace(SubSeq(s, 1, 1)) THEN LStrip(SubSeq(s, 2, Len(s))) ELSE s

RECURSIVE RStrip(_)
RStrip(s) ==
    IF Len(s) > 0 /\ IsSpace(SubSeq(s, Len(s), Len(s)))
    THEN RStrip(SubSeq(s, 1, Len(s) - 1))
    ELSE s

\* s.strip()
Strip(s) == RStrip(LStrip(s))

\* s.split(sep): the sequence of the pieces of s between occurrences of sep
RECURSIVE Split(_, _)
Split(s, sep) ==
    LET i == IndexOf(s, sep)
    IN  IF i = 0
        THEN <<s>>
        ELSE <<SubSeq(s, 1, i - 1)>> \o Split(SubSeq(s, i + Len(sep), Len(s)), sep)

\* sep.join(parts)
RECURSIVE Join(_, _)
Join(sep, parts) ==
    IF Len(parts) = 0 THEN ""
    ELSE IF Len(parts) = 1 THEN parts[1]
    ELSE parts[1] \o sep \o Join(sep, Tail(parts))

\* Python truthiness of an optional string: not None and not ""
Truthy(x) == ~IsNone(x) /\ Val(x) # ""

----------------------------------------------------------------------------
(* Raw documents and xml.etree.ElementTree.fromstring *)

STag(tag, attrs) == [k |-> "stag", tag |-> tag, attrs |-> attrs, data |-> ""]
ETag(tag) == [k |-> "etag", tag |-> tag, attrs |-> <<>>, data |-> ""]
CData(s) == [k |-> "cdata", tag |-> "", attrs |-> <<>>, data |-> s]
\* a start tag cut off before its ">"
Cut(tag) == [k |-> "cut", tag |-> tag, attrs |-> <<>>, data |-> ""]

NoAttrs == <<>>

\* ET.ParseError(message); str(e) is the message (the ": line l, column c"
\* suffix expat adds is left out)
ParseError(msg) == [kind |-> "raise", exc |-> "ParseError", msg |-> msg]

\* One parser step on token t.  st.stack holds the open tags (root first),
\* st.elems the elements below the root met so far, st.fresh the element
\* whose start tag is still unanswered by a child or an end tag (0 the root,
\* -1 none): character data met then is that element's .text, otherwise it
\* is some element's .tail.
ParseStart(t, st) ==
    IF st.stack = <<>>
    THEN [st EXCEPT !.stack = <<t.tag>>,
                    !.root = [tag |-> t.tag, attrs |-> t.attrs, text |-> None],
                    !.fresh = 0]
    ELSE [st EXCEPT !.stack = Append(st.stack, t.tag),
                    !.elems = Append(st.elems,
                                [path |-> Tail(Append(st.stack, t.tag)),
                                 attrs |-> t.attrs, text |-> None]),
                    !.fresh = Len(st.elems) + 1]

ParseEnd(t, st) ==
    [st EXCEPT !.stack = SubSeq(st.stack, 1, Len(st.stack) - 1),
               !.done = Len(st.stack) = 1,
               !.fresh = -1]

AddText(old, s) == IF IsNone(old) THEN Some(s) ELSE Some(Val(old) \o s)

ParseData(t, st) ==
    IF st.fresh = 0 THEN [st EXCEPT !.root.text = AddText(st.root.text, t.data)]
    ELSE IF st.fresh > 0
    THEN [st EXCEPT !.elems[st.fresh].text = AddText(st.elems[st.fresh].text, t.data)]
    ELSE st

\* The parser over the tokens lo..hi of toks, from state st.  st.error is
\* the message of the ParseError once a token raised it, and the tokens
\* after it are not looked at.  The tokens are taken in order, the first
\* half of the range before the second.
RECURSIVE ParseFrom(_, _, _, _)
ParseFrom(toks, lo, hi, st) ==
    IF lo > hi \/ ~IsNone(st.error) THEN st
    ELSE IF lo < hi
    THEN ParseFrom(toks, (lo + hi) \div 2 + 1, hi,
                   ParseFrom(toks, lo, (lo + hi) \div 2, st))
    ELSE LET t == toks[lo] IN
         CASE t.k = "cut" ->
                IF st.done THEN [st EXCEPT !.error = Some("junk after document element")]
                ELSE IF lo = Len(toks) THEN [st EXCEPT !.error = Some("unclosed token")]
                ELSE [st EXCEPT !.error = Some("not well-formed (invalid token)")]
           [] t.k = "stag" ->
                IF st.done THEN [st EXCEPT !.error = Some("junk after document element")]
                ELSE ParseStart(t, st)
           [] t.k = "etag" ->
                IF st.stack = <<>>
                THEN [st EXCEPT !.error = Some("not well-formed (invalid token)")]
                ELSE IF st.stack[Len(st.stack)] # t.tag
                THEN [st EXCEPT !.error = Some("mismatched tag")]
                ELSE ParseEnd(t, st)
           [] t.k = "cdata" ->
                IF st.stack # <<>> THEN ParseData(t, st)
                ELSE IF Strip(t.data) = "" THEN st
                ELSE IF st.done THEN [st EXCEPT !.error = Some("junk after document element")]
                ELSE [st EXCEPT !.error = Some("not well-formed (invalid token)")]

\* ET.fromstring(text): Return(tree) or ParseError
fromstring(text) ==
    Bind(ParseFrom(text, 1, Len(text),
                   [stack |-> <<>>, elems |-> <<>>, root |-> None,
                    done |-> FALSE, fresh |-> -1, error |-> None]), LAMBDA st :
        IF ~IsNone(st.error) THEN ParseError(Val(st.error))
        ELSE IF st.done
        THEN Return([tag |-> st.root.tag, attrs |-> st.root.attrs,
                     text |-> st.root.text, elems |-> st.elems])
        ELSE ParseError("no element found"))

----------------------------------------------------------------------------
(* Element.find / Element.findall / Element.get on a parsed tree.          *)
(* A node is named by its index in tree.elems, the root by 0.  Documents   *)
(* bind each prefix to the URI the namespace table gives it, so a          *)
(* qualified name is compared as "prefix:local".                           *)

NodePath(tree, n) == IF n = 0 THEN <<>> ELSE tree.elems[n].path
NodeTag(tree, n) == IF n = 0 THEN tree.tag ELSE tree.elems[n].path[Len(tree.elems[n].path)]
NodeText(tree, n) == IF n = 0 THEN tree.text ELSE tree.elems[n].text
NodeAttrs(tree, n) == IF n = 0 THEN tree.attrs ELSE tree.elems[n].attrs

\* node.get(name): the attribute's value or None
NodeGet(tree, n, name) ==
    IF name \in DOMAIN NodeAttrs(tree, n) THEN Some(NodeAttrs(tree, n)[name]) ELSE None

\* m lies in the subtree below n
IsDescendant(tree, n, m) ==
    /\ m > n
    /\ \A j \in (n + 1)..m : Len(NodePath(tree, j)) > Len(NodePath(tree, n))

IsChild(tree, n, m) ==
    IsDescendant(tree, n, m) /\ Len(NodePath(tree, m)) = Len(NodePath(tree, n)) + 1

\* the members of the index set S in document order
InOrder(S, j, hi) ==
    SelectSeq([k \in 1..(hi - j + 1) |-> k + j - 1], LAMBDA m : m \in S)

TagMatches(tree, m, name) == name = "*" \/ NodeTag(tree, m) = name

\* the nodes one path step selects from context node n
StepFrom(tree, n, name, deep) ==
    InOrder({m \in 1..Len(tree.elems) :
                /\ IF deep THEN IsDescendant(tree, n, m) ELSE IsChild(tree, n, m)
                /\ TagMatches(tree, m, name)},
            1, Len(tree.elems))

RECURSIVE StepAll(_, _, _, _)
StepAll(tree, ctx, name, deep) ==
    IF ctx = <<>> THEN <<>>
    ELSE StepFrom(tree, Head(ctx), name, deep) \o StepAll(tree, Tail(ctx), name, deep)

\* a step "prefix:local" whose prefix the namespace table does not hold
BadPrefix(step, ns) ==
    Contains(step, ":") /\ Split(step, ":")[1] \notin DOMAIN ns

\* the steps of a path one after the other; an empty piece comes from "//"
\* and makes the next step search all descendants
RECURSIVE Select(_, _, _, _, _)
Select(tree, ctx, steps, deep, ns) ==
    CASE steps = <<>> -> Return(ctx)
      [] steps # <<>> /\ Head(steps) = "" -> Select(tree, ctx, Tail(steps), TRUE, ns)
      [] steps # <<>> /\ Head(steps) = "." -> Select(tree, ctx, Tail(steps), FALSE, ns)
      [] steps # <<>> /\ StartsWith(Head(steps), "@") -> Raise("KeyError")
      [] OTHER ->
            IF BadPrefix(Head(steps), ns) THEN Raise("SyntaxError")
            ELSE Bind(StepAll(tree, ctx, Head(steps), deep), LAMBDA selected :
                 Select(tree, selected, Tail(steps), FALSE, ns))

\* ElementPath.iterfind(node, path, namespaces): Return(<<nodes>>) or a raise.
\* Predicates ([..]) and ".." are not modelled.
iterfind(tree, n, path, ns) ==
    IF path = "" THEN Raise("TypeError")
    ELSE IF StartsWith(path, "/") THEN Raise("SyntaxError")
    ELSE LET p == IF SubSeq(path, Len(path), Len(path)) = "/" THEN path \o "*" ELSE path
         IN  Select(tree, <<n>>, Split(p, "/"), FALSE, ns)

\* node.findall(path, namespaces)
findall(tree, n, path, ns) == iterfind(tree, n, path, ns)

\* node.find(path, namespaces): Return(None), Return(Some(node)) or a raise
find(tree, n, path, ns) ==
    Bind(iterfind(tree, n, path, ns), LAMBDA r :
        IF IsRaise(r) THEN r
        ELSE IF r.value = <<>> THEN Return(None)
        ELSE Return(Some(r.value[1])))

----------------------------------------------------------------------------
(* config/config_loader.py *)

\* d.get(key, default) on a TOML table
Get(d, key, default) == IF key \in DOMAIN d THEN d[key] ELSE default

\* getattr(obj, name) on a dataclass instance
GetAttr(obj, name) ==
    IF name \in DOMAIN obj THEN Return(obj[name]) ELSE Raise("AttributeError")

EmptyTable == <<>>

RuleConfig(type, xpath, field_display_name, allowed_values) ==
    [type |-> type, xpath |-> xpath, field_display_name |-> field_display_name,
     allowed_values |-> allowed_values]

DefaultMaxRecords == 100

ConfigLoader_load_source_config(config) ==
    LET connect_section == Get(config, "source", EmptyTable)
    IN  [url |-> Get(connect_section, "url", ""),
         search_endpoint |-> Get(connect_section, "search_endpoint", ""),
         get_record_endpoint |-> Get(connect_section, "get_record_endpoint", ""),
         maxRecords |-> Get(connect_section, "maxRecords", DefaultMaxRecords),
         test_endpoint |-> Get(connect_section, "test_endpoint", ""),
         grdc_filter_keywords |-> Get(connect_section, "grdc_filter_keywords", <<>>)]

ConfigLoader_load_notifications_config(config) ==
    LET notifications_section == Get(config, "notifications", EmptyTable)
    IN  [channel |-> Get(notifications_section, "channel", "email"),
         destination |-> Get(notifications_section, "destination", <<>>),
         client_id |-> Get(notifications_section, "client_id", ""),
         client_secret |-> Get(notifications_section, "client_secret", "")]

ConfigLoader_load_validator_config(config) ==
    LET rules_data == Get(config, "rules", <<>>)
    IN  [rules |-> [i \in 1..Len(rules_data) |->
                      RuleConfig(Get(rules_data[i], "type", ""),
                                 Get(rules_data[i], "path", ""),
                                 Get(rules_data[i], "field_display_name", ""),
                                 Get(rules_data[i], "allowed_values", <<>>))]]

\* ConfigLoader._load_config: open(config_path) and tomllib.load
ConfigLoader_load_config(fs, config_path) ==
    IF config_path \notin DOMAIN fs \/ IsNone(fs[config_path])
    THEN Raise("FileNotFoundError")
    ELSE Return(Val(fs[config_path]))

DefaultConfigPath == "config/config.toml"

\* the class before any ConfigLoader(...) call
ConfigLoaderClass ==
    [_instance |-> FALSE, _initialized |-> FALSE, config_path |-> None,
     _config |-> None, source_config |-> None, notifications_config |-> None,
     validator_config |-> None]

\* a ConfigLoader whose __init__ loads the file on every call
ConfigLoaderReloading(ld, fs, config_path) ==
    LET named == [ld EXCEPT !._instance = TRUE, !.config_path = Some(config_path)]
        c == ConfigLoader_load_config(fs, config_path)
    IN  IF IsRaise(c)
        THEN [loader |-> named, out |-> c]
        ELSE [loader |->
                [named EXCEPT
                   !._config = Some(c.value),
                   !.source_config = Some(ConfigLoader_load_source_config(c.value)),
                   !.notifications_config =
                       Some(ConfigLoader_load_notifications_config(c.value)),
                   !.validator_config =
                       Some(ConfigLoader_load_validator_config(c.value)),
                   !._initialized = TRUE],
              out |-> Return("ConfigLoader")]

\* ConfigLoader(config_path): __new__ hands out the one instance, __init__
\* loads the file unless an earlier call completed.  Gives the loader after
\* the call and the call's outcome.
ConfigLoader(ld, fs, config_path) ==
    LET made == [ld EXCEPT !._instance = TRUE]
    IN  IF made._initialized
        THEN [loader |-> made, out |-> Return("ConfigLoader")]
        ELSE LET named == [made EXCEPT !.config_path = Some(config_path)]
                 c == ConfigLoader_load_config(fs, config_path)
             IN  IF IsRaise(c)
                 THEN [loader |-> named, out |-> c]
                 ELSE [loader |->
                         [named EXCEPT
                            !._config = Some(c.value),
                            !.source_config = Some(ConfigLoader_load_source_config(c.value)),
                            !.notifications_config =
                                Some(ConfigLoader_load_notifications_config(c.value)),
                            !.validator_config =
                                Some(ConfigLoader_load_validator_config(c.value)),
                            !._initialized = TRUE],
                       out |-> Return("ConfigLoader")]

\* ConfigLoader.namespaces: the prefix table, the same dict on every access
namespaces ==
    [mdb |-> "http://standards.iso.org/iso/19115/-3/mdb/2.0",
     xsi |-> "http://www.w3.org/2001/XMLSchema-instance",
     cat |-> "http://standards.iso.org/iso/19115/-3/cat/1.0",
     gfc |-> "http://standards.iso.org/iso/19110/gfc/1.1",
     cit |-> "http://standards.iso.org/iso/19115/-3/cit/2.0",
     gcx |-> "http://standards.iso.org/iso/19115/-3/gcx/1.0",
     gex |-> "http://standards.iso.org/iso/19115/-3/gex/1.0",
     lan |-> "http://standards.iso.org/iso/19115/-3/lan/1.0",
     srv |-> "http://standards.iso.org/iso/19115/-3/srv/2.1",
     mas |-> "http://standards.iso.org/iso/19115/-3/mas/1.0",
     mcc |-> "http://standards.iso.org/iso/19115/-3/mcc/1.0",
     mco |-> "http://standards.iso.org/iso/19115/-3/mco/1.0",
     mda |-> "http://standards.iso.org/iso/19115/-3/mda/1.0",
     mds |-> "http://standards.iso.org/iso/19115/-3/mds/2.0",
     mdt |-> "http://standards.iso.org/iso/19115/-3/mdt/2.0",
     mex |-> "http://standards.iso.org/iso/19115/-3/mex/1.0",
     mmi |-> "http://standards.iso.org/iso/19115/-3/mmi/1.0",
     mpc |-> "http://standards.iso.org/iso/19115/-3/mpc/1.0",
     mrc |-> "http://standards.iso.org/iso/19115/-3/mrc/2.0",
     mrd |-> "http://standards.iso.org/iso/19115/-3/mrd/1.0",
     mri |-> "http://standards.iso.org/iso/19115/-3/mri/1.0",
     mrl |-> "http://standards.iso.org/iso/19115/-3/mrl/2.0",
     mrs |-> "http://standards.iso.org/iso/19115/-3/mrs/1.0",
     msr |-> "http://standards.iso.org/iso/19115/-3/msr/2.0",
     mdq |-> "http://standards.iso.org/iso/19157/-2/mdq/1.0",
     mac |-> "http://standards.iso.org/iso/19115/-3/mac/2.0",
     gco |-> "http://standards.iso.org/iso/19115/-3/gco/1.0",
     gml |-> "http://www.opengis.net/gml/3.2",
     xlink |-> "http://www.w3.org/1999/xlink",
     gmd |-> "http://www.isotc211.org/2005/gmd"]

----------------------------------------------------------------------------
(* validator/rules.py.  rule.validate(record) gives Return(None) (no       *)
(* error), Return(Some(message)) or a raise.  Every validate method starts *)
(* with ConfigLoader().namespaces; rule instances exist only after the     *)
(* loader has been initialized, so that call changes                       *)
(* nothing and yields the table.                                           *)

FieldExistsRule(xpath, field_name) ==
    [cls |-> "FieldExistsRule", xpath |-> xpath, field_name |-> field_name]

ValueInListRule(xpath, allowed_values, field_display_name) ==
    [cls |-> "ValueInListRule", xpath |-> xpath, allowed_values |-> allowed_values,
     field_display_name |-> field_display_name]

FloatRule(xpath, field_name) ==
    [cls |-> "FloatRule", xpath |-> xpath, field_name |-> field_name]

DateRule(xpath, field_name) ==
    [cls |-> "DateRule", xpath |-> xpath, field_name |-> field_name]

ValidPurposeRule(xpath, field_display_name) ==
    [cls |-> "ValidPurposeRule", xpath |-> xpath,
     field_display_name |-> field_display_name]

IdentifierRule(xpath, field_name) ==
    [cls |-> "IdentifierRule", xpath |-> xpath, field_name |-> field_name]

CitationRule(xpath, field_name) ==
    [cls |-> "CitationRule", xpath |-> xpath, field_name |-> field_name]

\* a text check that leaves out the strip(): whitespace counts as text
EmptyText(record, node) ==
    IsNone(node) \/ ~Truthy(NodeText(record, Val(node)))

\* node is None or not node.text or not node.text.strip(), for a found node
BlankText(record, node) ==
    \/ IsNone(node)
    \/ ~Truthy(NodeText(record, Val(node)))
    \/ Strip(Val(NodeText(record, Val(node)))) = ""

\* node.text.strip()
StrippedText(record, node) == Strip(Val(NodeText(record, Val(node))))

FieldExistsRule_validate(self, record) ==
    IF Contains(self.xpath, "/@")
    THEN Bind(Split(self.xpath, "/@"), LAMBDA parts :
         IF Len(parts) # 2 THEN Raise("ValueError")
         ELSE LET element_path == parts[1]
                  attr_name == parts[2]
              IN  Bind(find(record, 0, element_path, namespaces), LAMBDA node :
                  IF IsRaise(node) THEN node
                  ELSE IF IsNone(node.value)
                  THEN Return(Some("Record is missing a " \o self.field_name
                                   \o " (element not found)"))
                  ELSE LET value == NodeGet(record, Val(node.value), attr_name) IN
                       IF ~Truthy(value) \/ Strip(Val(value)) = ""
                       THEN Return(Some("Record is missing a " \o self.field_name
                                        \o " (attribute " \o attr_name
                                        \o " missing or empty)"))
                       ELSE Return(None)))
    ELSE Bind(find(record, 0, self.xpath, namespaces), LAMBDA node :
         IF IsRaise(node) THEN node
         ELSE IF IsNone(node.value)
         THEN Return(Some("Record is missing a " \o self.field_name))
         ELSE IF BlankText(record, node.value)
         THEN Return(Some("Record is missing a " \o self.field_name))
         ELSE Return(None))

\* the message without the list of the allowed values
UnlistedValueMessage(self, value) ==
    "Record has an invalid " \o self.field_display_name \o ": '" \o value \o "'."

InvalidValueMessage(self, value) ==
    "Record has an invalid " \o self.field_display_name \o ": '" \o value
    \o "'. Allowed values are: " \o Join(", ", self.allowed_values)

ValueInListRule_validate(self, record) ==
    IF Contains(self.xpath, "/@")
    THEN Bind(Split(self.xpath, "/@"), LAMBDA parts :
         IF Len(parts) # 2 THEN Raise("ValueError")
         ELSE LET element_path == parts[1]
                  attr_name == parts[2]
              IN  Bind(find(record, 0, element_path, namespaces), LAMBDA node :
                  IF IsRaise(node) THEN node
                  ELSE IF IsNone(node.value)
                  THEN Return(Some("Record is missing " \o self.field_display_name
                                   \o " (element not found)"))
                  ELSE LET value == NodeGet(record, Val(node.value), attr_name) IN
                       IF ~Truthy(value)
                       THEN Return(Some("Record is missing " \o self.field_display_name
                                        \o " (attribute " \o attr_name
                                        \o " missing or empty)"))
                       ELSE IF Strip(Val(value)) \notin Range(self.allowed_values)
                       THEN Return(Some(InvalidValueMessage(self, Strip(Val(value)))))
                       ELSE Return(None)))
    ELSE Bind(find(record, 0, self.xpath, namespaces), LAMBDA node :
         IF IsRaise(node) THEN node
         ELSE IF IsNone(node.value) \/ ~Truthy(NodeText(record, Val(node.value)))
         THEN Return(Some("Record is missing " \o self.field_display_name \o "."))
         ELSE IF StrippedText(record, node.value) \notin Range(self.allowed_values)
         THEN Return(Some(InvalidValueMessage(self, StrippedText(record, node.value))))
         ELSE Return(None))

\* the three helpers of IdentifierRule: each finds the node again and gives
\* an error message when the text lacks its prefix, None when it has it
IdentifierRule_valid_doi(self, record) ==
    Bind(find(record, 0, self.xpath, namespaces), LAMBDA node :
    IF IsRaise(node) THEN node
    ELSE IF IsNone(node.value) \/ ~Truthy(NodeText(record, Val(node.value)))
    THEN Return(None)
    ELSE IF ~StartsWith(Val(NodeText(record, Val(node.value))), "10.")
    THEN Return(Some("Record has an invalid doi: " \o StrippedText(record, node.value)))
    ELSE Return(None))

IdentifierRule_valid_handle(self, record) ==
    Bind(find(record, 0, self.xpath, namespaces), LAMBDA node :
    IF IsRaise(node) THEN node
    ELSE IF IsNone(node.value) \/ ~Truthy(NodeText(record, Val(node.value)))
    THEN Return(None)
    ELSE IF ~StartsWith(Val(NodeText(record, Val(node.value))), "http://hdl.handle.net/")
    THEN Return(Some("Record has an invalid handle: " \o StrippedText(record, node.value)))
    ELSE Return(None))

IdentifierRule_valid_url(self, record) ==
    Bind(find(record, 0, self.xpath, namespaces), LAMBDA node :
    IF IsRaise(node) THEN node
    ELSE IF IsNone(node.value) \/ ~Truthy(NodeText(record, Val(node.value)))
    THEN Return(None)
    ELSE IF /\ ~StartsWith(Val(NodeText(record, Val(node.value))), "http://")
            /\ ~StartsWith(Val(NodeText(record, Val(node.value))), "https://")
    THEN Return(Some("Record has an invalid url: " \o StrippedText(record, node.value)))
    ELSE Return(None))

\* a helper's result is returned as soon as it is an error message
IdentifierRule_validate(self, record) ==
    Bind(find(record, 0, self.xpath, namespaces), LAMBDA node :
    IF IsRaise(node) THEN node
    ELSE IF BlankText(record, node.value)
    THEN Return(Some("Record is missing " \o self.field_name))
    ELSE Bind(IdentifierRule_valid_doi(self, record), LAMBDA doi :
         IF ~IsNone(doi.value) THEN doi
         ELSE Bind(IdentifierRule_valid_handle(self, record), LAMBDA handle :
              IF ~IsNone(handle.value) THEN handle
              ELSE Bind(IdentifierRule_valid_url(self, record), LAMBDA url :
                   IF ~IsNone(url.value) THEN url
                   ELSE Return(None)))))

CitationRule_validate(self, record) ==
    Bind(find(record, 0, self.xpath, namespaces), LAMBDA node :
    IF IsRaise(node) THEN node
    ELSE IF IsNone(node.value) \/ ~Truthy(NodeText(record, Val(node.value)))
    THEN Return(None)
    ELSE IF /\ ~StartsWith(Val(NodeText(record, Val(node.value))), "http://")
            /\ ~StartsWith(Val(NodeText(record, Val(node.value))), "https://")
    THEN Return(Some("Record has an invalid citation: " \o StrippedText(record, node.value)))
    ELSE Return(None))

----------------------------------------------------------------------------
(* float(), datetime.strptime and re.match as the rules use them *)

Digits == {"0", "1", "2", "3", "4", "5", "6", "7", "8", "9"}
Upper == {"A", "B", "C", "D", "E", "F", "G", "H", "I", "J", "K", "L", "M",
          "N", "O", "P", "Q", "R", "S", "T", "U", "V", "W", "X", "Y", "Z"}

Char(s, i) == SubSeq(s, i, i)

AllIn(s, chars) == \A i \in 1..Len(s) : Char(s, i) \in chars

\* s.lower() on the letters float() looks at
LowerChar(c) ==
    CASE c = "I" -> "i" [] c = "N" -> "n" [] c = "F" -> "f" [] c = "T" -> "t"
      [] c = "Y" -> "y" [] c = "A" -> "a" [] c = "E" -> "e" [] OTHER -> c

RECURSIVE Lower(_)
Lower(s) == IF s = "" THEN "" ELSE LowerChar(Char(s, 1)) \o Lower(SubSeq(s, 2, Len(s)))

\* digits, single underscores allowed between them
DigitPart(s) ==
    Bind(Split(s, "_"), LAMBDA parts :
        \A i \in 1..Len(parts) : parts[i] # "" /\ AllIn(parts[i], Digits))

Unsigned(s) ==
    IF Len(s) > 0 /\ Char(s, 1) \in {"+", "-"} THEN SubSeq(s, 2, Len(s)) ELSE s

Mantissa(m) ==
    Bind(Split(m, "."), LAMBDA parts :
    \/ Len(parts) = 1 /\ DigitPart(parts[1])
    \/ /\ Len(parts) = 2
       /\ parts[1] # "" \/ parts[2] # ""
       /\ parts[1] = "" \/ DigitPart(parts[1])
       /\ parts[2] = "" \/ DigitPart(parts[2]))

\* float(s) succeeds (s already stripped)
IsFloat(s) ==
    Bind(Lower(Unsigned(s)), LAMBDA u :
    Bind(Split(u, "e"), LAMBDA parts :
        \/ u \in {"inf", "infinity", "nan"}
        \/ Len(parts) = 1 /\ Mantissa(parts[1])
        \/ Len(parts) = 2 /\ Mantissa(parts[1]) /\ DigitPart(Unsigned(parts[2]))))

DigitValue(c) ==
    CASE c = "0" -> 0 [] c = "1" -> 1 [] c = "2" -> 2 [] c = "3" -> 3 [] c = "4" -> 4
      [] c = "5" -> 5 [] c = "6" -> 6 [] c = "7" -> 7 [] c = "8" -> 8 [] c = "9" -> 9

RECURSIVE ToInt(_)
ToInt(s) == IF s = "" THEN 0 ELSE 10 * ToInt(SubSeq(s, 1, Len(s) - 1)) + DigitValue(Char(s, Len(s)))

IsLeap(y) == y % 4 = 0 /\ (y % 100 # 0 \/ y % 400 = 0)

DaysIn(y, m) ==
    IF m = 2 THEN (IF IsLeap(y) THEN 29 ELSE 28)
    ELSE IF m \in {4, 6, 9, 11} THEN 30 ELSE 31

\* the strptime directives: %Y is four digits, %m is 1[0-2]|0[1-9]|[1-9],
\* %d is 3[01]|[12]\d|0[1-9]|[1-9]| [1-9]
MatchesY(s) == Len(s) = 4 /\ AllIn(s, Digits)
MatchesM(s) == Len(s) \in {1, 2} /\ AllIn(s, Digits) /\ ToInt(s) \in 1..12
MatchesD(s) ==
    \/ Len(s) \in {1, 2} /\ AllIn(s, Digits) /\ ToInt(s) \in 1..31
    \/ Len(s) = 2 /\ Char(s, 1) = " " /\ Char(s, 2) \in Digits \ {"0"}

ValidDate(y, m, d) ==
    MatchesY(y) /\ MatchesM(m) /\ MatchesD(d)
    /\ ToInt(y) >= 1 /\ ToInt(Strip(d)) <= DaysIn(ToInt(y), ToInt(m))

\* datetime.datetime.strptime(s, "%Y-%m-%d") succeeds
StrptimeYmd(s) ==
    Bind(Split(s, "-"), LAMBDA parts :
    Len(parts) = 3 /\ ValidDate(parts[1], parts[2], parts[3]))

\* datetime.datetime.strptime(s, "%d-%m-%Y") succeeds
StrptimeDmy(s) ==
    Bind(Split(s, "-"), LAMBDA parts :
    Len(parts) = 3 /\ ValidDate(parts[3], parts[2], parts[1]))

\* a match on the length of the code alone
MatchesCodeLength(code) == Len(code) \in {14, 15}

\* re.match(r"^[A-Z]{3}[0-9]{4}-[0-9]{3}-?[A-Z]{3}$", code)
MatchesContractCode(code) ==
    /\ Len(code) \in {14, 15}
    /\ AllIn(SubSeq(code, 1, 3), Upper)
    /\ AllIn(SubSeq(code, 4, 7), Digits)
    /\ Char(code, 8) = "-"
    /\ AllIn(SubSeq(code, 9, 11), Digits)
    /\ IF Len(code) = 15 THEN Char(code, 12) = "-" ELSE TRUE
    /\ AllIn(SubSeq(code, Len(code) - 2, Len(code)), Upper)

----------------------------------------------------------------------------
(* validator/rules.py, continued *)

FloatRule_validate(self, record) ==
    Bind(find(record, 0, self.xpath, namespaces), LAMBDA node :
    IF IsRaise(node) THEN node
    ELSE IF BlankText(record, node.value)
    THEN Return(Some("Record is missing " \o self.field_name))
    ELSE IF IsFloat(StrippedText(record, node.value))
    THEN Return(None)
    ELSE Return(Some("Record has an invalid float: " \o StrippedText(record, node.value))))

DateRule_validate(self, record) ==
    Bind(find(record, 0, self.xpath, namespaces), LAMBDA node :
    IF IsRaise(node) THEN node
    ELSE IF BlankText(record, node.value)
    THEN Return(Some("Record has an invalid date: "
                     \o (IF ~IsNone(node.value) /\ Truthy(NodeText(record, Val(node.value)))
                         THEN StrippedText(record, node.value)
                         ELSE "None")))
    ELSE IF StrptimeYmd(StrippedText(record, node.value)) THEN Return(None)
    ELSE IF StrptimeDmy(StrippedText(record, node.value)) THEN Return(None)
    ELSE Return(Some("Record has an invalid date: " \o StrippedText(record, node.value))))

ValidPurposeRule_validate(self, record) ==
    Bind(find(record, 0, self.xpath, namespaces), LAMBDA node :
    IF IsRaise(node) THEN node
    ELSE IF BlankText(record, node.value)
    THEN Return(Some("Record is missing " \o self.field_display_name))
    ELSE Bind(Split(Val(NodeText(record, Val(node.value))), ","), LAMBDA purpose :
         IF Len(purpose) # 2
         THEN Return(Some("Record has an invalid " \o self.field_display_name \o ": "
                          \o StrippedText(record, node.value)
                          \o ". It should be in the format 'GRDC contract code, project title'"))
         ELSE Bind(Strip(purpose[1]), LAMBDA contract_code :
              IF ~MatchesContractCode(contract_code)
              THEN Return(Some("Record has an invalid contract code: " \o contract_code
                               \o ". It should be in the format ABC1234-567-XYZ or ABC1234-567XYZ"))
              ELSE Return(None))))

PrincipalInvestigatorRule(xpath, field_display_name) ==
    [cls |-> "PrincipalInvestigatorRule", xpath |-> xpath,
     field_display_name |-> field_display_name]

\* an ORCID check that accepts every linkage
NoOrcidError(record, online_resources) == None

\* the ORCID check of one party: the first online resource named 'Orcid' or
\* 'Orchid' whose linkage text lacks "orcid.org" gives the error
RECURSIVE OrcidError(_, _)
OrcidError(record, online_resources) ==
    IF online_resources = <<>> THEN None
    ELSE Bind(find(record, Head(online_resources), "cit:name/gco:CharacterString",
                   namespaces).value, LAMBDA res_name :
         Bind(find(record, Head(online_resources), "cit:linkage/gco:CharacterString",
                   namespaces).value, LAMBDA linkage :
             IF /\ ~IsNone(res_name)
                /\ NodeText(record, Val(res_name)) \in {Some("Orcid"), Some("Orchid")}
                /\ ~IsNone(linkage)
                /\ Truthy(NodeText(record, Val(linkage)))
                /\ ~Contains(Val(NodeText(record, Val(linkage))), "orcid.org")
             THEN Some("Principal Investigator has invalid ORCID URL: "
                       \o Val(NodeText(record, Val(linkage))))
             ELSE OrcidError(record, Tail(online_resources))))

IsPrincipalInvestigator(record, party) ==
    Bind(find(record, party, "cit:CI_Responsibility/cit:role/cit:CI_RoleCode",
              namespaces).value, LAMBDA role :
        /\ ~IsNone(role)
        /\ NodeGet(record, Val(role), "codeListValue") = Some("principalInvestigator"))

\* the checks of one party with the ORCID check put before the e-mail check
OrcidBeforeEmail(record, party) ==
    Bind(find(record, party,
              ".//cit:individual/cit:CI_Individual/cit:name/gco:CharacterString",
              namespaces).value, LAMBDA name :
    Bind(find(record, party, ".//cit:electronicMailAddress/gco:CharacterString",
              namespaces).value, LAMBDA email :
    Bind(OrcidError(record, findall(record, party,
                                    ".//cit:onlineResource/cit:CI_OnlineResource",
                                    namespaces).value), LAMBDA orcid :
        IF BlankText(record, name)
        THEN Some("Principal Investigator must have a name")
        ELSE IF ~IsNone(orcid) THEN orcid
        ELSE IF /\ ~IsNone(email)
                /\ Truthy(NodeText(record, Val(email)))
                /\ ~Contains(Val(NodeText(record, Val(email))), "@")
        THEN Some("Principal Investigator has invalid email: "
                  \o Val(NodeText(record, Val(email))))
        ELSE None)))

\* the checks of one party with the PI role: None or the first error
PartyError(record, party) ==
    Bind(find(record, party,
              ".//cit:individual/cit:CI_Individual/cit:name/gco:CharacterString",
              namespaces).value, LAMBDA name :
    Bind(find(record, party, ".//cit:electronicMailAddress/gco:CharacterString",
              namespaces).value, LAMBDA email :
        IF BlankText(record, name)
        THEN Some("Principal Investigator must have a name")
        ELSE IF /\ ~IsNone(email)
                /\ Truthy(NodeText(record, Val(email)))
                /\ ~Contains(Val(NodeText(record, Val(email))), "@")
        THEN Some("Principal Investigator has invalid email: "
                  \o Val(NodeText(record, Val(email))))
        ELSE OrcidError(record, findall(record, party,
                                        ".//cit:onlineResource/cit:CI_OnlineResource",
                                        namespaces).value)))

\* a loop over the parties that stops at the first party with the PI role
\* that passes the checks
RECURSIVE PartiesLoopExcusing(_, _, _)
PartiesLoopExcusing(record, parties, pi_found) ==
    IF parties = <<>>
    THEN IF ~pi_found
         THEN Return(Some("Record must have at least one Principal Investigator"))
         ELSE Return(None)
    ELSE IF IsPrincipalInvestigator(record, Head(parties))
    THEN Bind(PartyError(record, Head(parties)), LAMBDA error :
         IF IsNone(error) THEN Return(None)
         ELSE PartiesLoopExcusing(record, Tail(parties), TRUE))
    ELSE PartiesLoopExcusing(record, Tail(parties), pi_found)

\* the loop over the parties: the first error of a PI party is returned at
\* once; at the end the rule fails when no party had the PI role
RECURSIVE PartiesLoop(_, _, _)
PartiesLoop(record, parties, pi_found) ==
    IF parties = <<>>
    THEN IF ~pi_found
         THEN Return(Some("Record must have at least one Principal Investigator"))
         ELSE Return(None)
    ELSE IF IsPrincipalInvestigator(record, Head(parties))
    THEN Bind(PartyError(record, Head(parties)), LAMBDA error :
         IF ~IsNone(error) THEN Return(error)
         ELSE PartiesLoop(record, Tail(parties), TRUE))
    ELSE PartiesLoop(record, Tail(parties), pi_found)

PrincipalInvestigatorRule_validate(self, record) ==
    Bind(findall(record, 0, self.xpath, namespaces), LAMBDA parties :
    IF IsRaise(parties) THEN parties
    ELSE PartiesLoop(record, parties.value, FALSE))

\* rule.validate(record): the method of the rule's class
RuleValidate(rule, record) ==
    CASE rule.cls = "FieldExistsRule" -> FieldExistsRule_validate(rule, record)
      [] rule.cls = "ValueInListRule" -> ValueInListRule_validate(rule, record)
      [] rule.cls = "FloatRule" -> FloatRule_validate(rule, record)
      [] rule.cls = "DateRule" -> DateRule_validate(rule, record)
      [] rule.cls = "ValidPurposeRule" -> ValidPurposeRule_validate(rule, record)
      [] rule.cls = "IdentifierRule" -> IdentifierRule_validate(rule, record)
      [] rule.cls = "CitationRule" -> CitationRule_validate(rule, record)
      [] rule.cls = "PrincipalInvestigatorRule" ->
            PrincipalInvestigatorRule_validate(rule, record)

----------------------------------------------------------------------------
(* validator/validator.py *)

ValidationResult(is_valid, errors) == [is_valid |-> is_valid, errors |-> errors]

\* the names bound in the module validator.validator: its own imports, what
\* "from .rules import *" brings (every public name of rules.py) and its own
\* classes
ValidatorGlobals ==
    {"ABC", "abstractmethod", "List", "Optional", "dataclass", "ET", "ConfigLoader",
     "datetime", "re", "ValidationRule", "FieldExistsRule", "ValueInListRule",
     "FloatRule", "DateRule", "ValidPurposeRule", "IdentifierRule", "CitationRule",
     "PrincipalInvestigatorRule", "ValidationResult", "ValidatorInterface",
     "GeoNetworkValidator"}

\* reading a global name of that module
LoadGlobal(name) == IF name \in ValidatorGlobals THEN Return(name) ELSE Raise("NameError")

\* one branch of _set_rules: the arguments are read off the RuleConfig in
\* order, then the rule class is called
FieldExistsBranch(rule) ==
    LET xpath == GetAttr(rule, "xpath")
        field_name == GetAttr(rule, "field_name")
    IN  IF IsRaise(xpath) THEN xpath
        ELSE IF IsRaise(field_name) THEN field_name
        ELSE Return(Some(FieldExistsRule(xpath.value, field_name.value)))

ValueInListBranch(rule) ==
    LET xpath == GetAttr(rule, "xpath")
        allowed_values == GetAttr(rule, "allowed_values")
        field_name == GetAttr(rule, "field_name")
    IN  IF IsRaise(xpath) THEN xpath
        ELSE IF IsRaise(allowed_values) THEN allowed_values
        ELSE IF IsRaise(field_name) THEN field_name
        ELSE Return(Some(ValueInListRule(xpath.value, allowed_values.value,
                                         field_name.value)))

FloatBranch(rule) ==
    LET xpath == GetAttr(rule, "xpath")
        field_name == GetAttr(rule, "field_name")
    IN  IF IsRaise(xpath) THEN xpath
        ELSE IF IsRaise(field_name) THEN field_name
        ELSE Return(Some(FloatRule(xpath.value, field_name.value)))

DateBranch(rule) ==
    LET xpath == GetAttr(rule, "xpath")
        field_name == GetAttr(rule, "field_name")
    IN  IF IsRaise(xpath) THEN xpath
        ELSE IF IsRaise(field_name) THEN field_name
        ELSE Return(Some(DateRule(xpath.value, field_name.value)))

ValidPurposeBranch(rule) ==
    LET xpath == GetAttr(rule, "xpath")
        field_name == GetAttr(rule, "field_name")
    IN  IF IsRaise(xpath) THEN xpath
        ELSE IF IsRaise(field_name) THEN field_name
        ELSE Return(Some(ValidPurposeRule(xpath.value, field_name.value)))

IdentifierBranch(rule) ==
    LET xpath == GetAttr(rule, "xpath")
        field_name == GetAttr(rule, "field_name")
    IN  IF IsRaise(xpath) THEN xpath
        ELSE IF IsRaise(field_name) THEN field_name
        ELSE Return(Some(IdentifierRule(xpath.value, field_name.value)))

CitationBranch(rule) ==
    LET xpath == GetAttr(rule, "xpath")
        field_name == GetAttr(rule, "field_name")
    IN  IF IsRaise(xpath) THEN xpath
        ELSE IF IsRaise(field_name) THEN field_name
        ELSE Return(Some(CitationRule(xpath.value, field_name.value)))

\* the body of the loop of _set_rules for one RuleConfig: Return(Some(rule
\* instance)) to append, Return(None) when no branch matches (the chain has
\* no else), or the raise of the branch taken
SetRule(rule) ==
    CASE rule.type = "field_exists" -> FieldExistsBranch(rule)
      [] rule.type = "value_in_list" -> ValueInListBranch(rule)
      [] rule.type = "float" -> FloatBranch(rule)
      [] rule.type = "date" -> DateBranch(rule)
      [] rule.type = "valid_purpose" -> ValidPurposeBranch(rule)
      [] rule.type = "identifier" -> IdentifierBranch(rule)
      [] rule.type = "citation" -> CitationBranch(rule)
      [] OTHER -> Return(None)

\* GeoNetworkValidator._set_rules from the i-th RuleConfig on: Return(rules)
\* or the first raise
RECURSIVE SetRulesFrom(_, _, _)
SetRulesFrom(config_rules, i, rules) ==
    IF i > Len(config_rules) THEN Return(rules)
    ELSE Bind(SetRule(config_rules[i]), LAMBDA r :
         IF IsRaise(r) THEN r
         ELSE SetRulesFrom(config_rules, i + 1,
                           IF IsNone(r.value) THEN rules ELSE Append(rules, Val(r.value))))

GeoNetworkValidator_set_rules(validator_config) ==
    SetRulesFrom(validator_config.rules, 1, <<>>)

\* GeoNetworkValidator(): ConfigLoader() with the default path, then
\* _set_rules.  Gives the loader after the call and Return(validator) or the
\* raise that ended __init__.
GeoNetworkValidator(ld, fs) ==
    Bind(ConfigLoader(ld, fs, DefaultConfigPath), LAMBDA c :
    IF IsRaise(c.out) THEN c
    ELSE Bind(GeoNetworkValidator_set_rules(Val(c.loader.validator_config)), LAMBDA rules :
         IF IsRaise(rules) THEN [loader |-> c.loader, out |-> rules]
         ELSE [loader |-> c.loader,
               out |-> Return([validator_config |-> Val(c.loader.validator_config),
                               rules |-> rules.value])]))

TitleXPath ==
    "mdb:identificationInfo/mri:MD_DataIdentification/mri:citation/cit:CI_Citation/cit:title/gco:CharacterString"

\* the print of validate: root.find(<title path>, NAMESPACES).text.  The
\* arguments are evaluated first, NAMESPACES as a global of the module; .text
\* of the None that find gives for an absent title is an AttributeError.
PrintTitle(root) ==
    Bind(LoadGlobal("NAMESPACES"), LAMBDA table :
    IF IsRaise(table) THEN table
    ELSE Bind(find(root, 0, TitleXPath, namespaces), LAMBDA node :
         IF IsRaise(node) THEN node
         ELSE IF IsNone(node.value) THEN Raise("AttributeError")
         ELSE Return(None)))

\* a faulty variant of "errors = []": the list of the previous call is kept
StaleErrors ==
    IF last.op = "validate" /\ last.out.kind = "return"
    THEN last.out.value.errors ELSE <<>>

\* errors = []
InitialErrors == <<>>

\* a faulty variant of the message: the text of the exception alone
BareMessage(e) == e.msg

\* f"XML Parse Error: {str(e)}"
ParseErrorMessage(e) == "XML Parse Error: " \o e.msg

\* a faulty variant of the except branch: is_valid=True
ParseFailureValid(errors, e) ==
    ValidationResult(TRUE, Append(errors, ParseErrorMessage(e)))

\* the except branch: one more entry in errors, is_valid=False
ParseFailure(errors, e) ==
    ValidationResult(FALSE, Append(errors, ParseErrorMessage(e)))

\* the loop "for rule in self.rules" from the i-th rule on, and the final
\* return.  evaluated lists the rules whose validate was called.  A raise of
\* a rule is no ET.ParseError, so it leaves validate.
RECURSIVE RunRules(_, _, _, _, _)
RunRules(rules, root, i, errors, evaluated) ==
    IF i > Len(rules)
    THEN [out |-> Return(ValidationResult(Len(errors) = 0, errors)),
          evaluated |-> evaluated]
    ELSE Bind(RuleValidate(rules[i], root), LAMBDA error :
         IF IsRaise(error)
         THEN [out |-> error, evaluated |-> Append(evaluated, i)]
         ELSE RunRules(rules, root, i + 1,
                       IF Truthy(error.value) THEN Append(errors, Val(error.value))
                       ELSE errors,
                       Append(evaluated, i)))

\* GeoNetworkValidator.validate(record_xml): the outcome and the rules
\* evaluated on the way
validate(self, record_xml) ==
    Bind(fromstring(record_xml), LAMBDA root :
        IF IsRaise(root)
        THEN [out |-> Return(ParseFailure(InitialErrors, root)), evaluated |-> <<>>]
        ELSE Bind(PrintTitle(root.value), LAMBDA shown :
             IF IsRaise(shown) THEN [out |-> shown, evaluated |-> <<>>]
             ELSE RunRules(self.rules, root.value, 1, InitialErrors, <<>>)))

----------------------------------------------------------------------------
(* The inputs: configuration files and raw documents *)

MaxRules == 2       \* rule tables in a configuration file
MaxCut == 3         \* tokens kept of a document cut short

\* the [[rules]] tables a file is made of: one per rule kind, one of an
\* unknown kind, one without a type, one without a path
RuleTables ==
    { [type |-> "field_exists", field_display_name |-> "title",
       path |-> ".//mri:citation/cit:CI_Citation/cit:title/gco:CharacterString"],
      [type |-> "field_exists", field_display_name |-> "abstract",
       path |-> ".//mri:abstract/gco:CharacterString"],
      [type |-> "field_exists", field_display_name |-> "lineage"],
      [type |-> "value_in_list", field_display_name |-> "resource type",
       path |-> ".//mdb:metadataScope/mdb:MD_MetadataScope/mdb:resourceScope/mcc:MD_ScopeCode/@codeListValue",
       allowed_values |-> <<"dataset", "series">>],
      [type |-> "float", field_display_name |-> "west longitude",
       path |-> ".//gex:westBoundLongitude/gco:Decimal"],
      [type |-> "date", field_display_name |-> "begin date",
       path |-> ".//gml:TimePeriod/gml:beginPosition"],
      [type |-> "valid_purpose", field_display_name |-> "purpose",
       path |-> ".//mri:purpose/gco:CharacterString"],
      [type |-> "identifier", field_display_name |-> "identifier",
       path |-> "mdb:metadataIdentifier/mcc:MD_Identifier/mcc:code/gco:CharacterString"],
      [type |-> "citation", field_display_name |-> "citation",
       path |-> ".//mrd:onLine/cit:CI_OnlineResource/cit:linkage/gco:CharacterString"],
      [type |-> "principal_investigator", field_display_name |-> "principal investigator",
       path |-> ".//mri:pointOfContact/cit:CI_Responsibility/cit:party"],
      [type |-> "regex", field_display_name |-> "keyword",
       path |-> ".//mri:keyword/gco:CharacterString"],
      [field_display_name |-> "untyped",
       path |-> ".//mri:abstract/gco:CharacterString"] }

RECURSIVE SeqsUpTo(_, _)
SeqsUpTo(S, n) ==
    IF n = 0 THEN {<<>>}
    ELSE SeqsUpTo(S, n - 1) \cup
         {Append(q, x) : q \in {r \in SeqsUpTo(S, n - 1) : Len(r) = n - 1}, x \in S}

Toml(rules) ==
    [source |-> [url |-> "https://catalogue.example.org/geonetwork/srv/api",
                 search_endpoint |-> "/search/records/_search",
                 get_record_endpoint |-> "/records",
                 test_endpoint |-> "/site",
                 grdc_filter_keywords |-> <<"GRDC", "Grains">>],
     rules |-> rules]

DevConfigPath == "config/config_dev.toml"
ConfigPaths == {DefaultConfigPath, DevConfigPath}

\* the rules of the development configuration
DevRules ==
    << [type |-> "regex", field_display_name |-> "keyword",
        path |-> ".//mri:keyword/gco:CharacterString"] >>

S(tag) == STag(tag, NoAttrs)

\* <tag><gco:CharacterString>text</gco:CharacterString></tag>; text None
\* leaves the element empty
CharacterString(tag, text) ==
    <<S(tag), S("gco:CharacterString")>>
    \o (IF IsNone(text) THEN <<>> ELSE <<CData(Val(text))>>)
    \o <<ETag("gco:CharacterString"), ETag(tag)>>

\* a field is None (its element is left out) or Some(text of the element)
Field(tag, field) == IF IsNone(field) THEN <<>> ELSE CharacterString(tag, Val(field))

\* a metadata record with the given identifier, title and abstract
Record(identifier, title, abstract) ==
    <<S("mdb:MD_Metadata")>>
    \o (IF IsNone(identifier) THEN <<>>
        ELSE <<S("mdb:metadataIdentifier"), S("mcc:MD_Identifier")>>
             \o CharacterString("mcc:code", Val(identifier))
             \o <<ETag("mcc:MD_Identifier"), ETag("mdb:metadataIdentifier")>>)
    \o <<S("mdb:identificationInfo"), S("mri:MD_DataIdentification"),
         S("mri:citation"), S("cit:CI_Citation")>>
    \o Field("cit:title", title)
    \o <<ETag("cit:CI_Citation"), ETag("mri:citation")>>
    \o Field("mri:abstract", abstract)
    \o <<ETag("mri:MD_DataIdentification"), ETag("mdb:identificationInfo"),
         ETag("mdb:MD_Metadata")>>

ValidRecord == Record(Some(Some("10.1234/xyz")), Some(Some("Valid Title")),
                      Some(Some("Valid Abstract")))

WellFormedTexts ==
    {Record(i, t, a) :
        i \in {None, Some(Some("10.1234/xyz"))},
        t \in {None, Some(None), Some(Some("Valid Title"))},
        a \in {Some(Some("Valid Abstract"))}}

MalformedTexts ==
    {SubSeq(ValidRecord, 1, k) : k \in 0..MaxCut}
    \cup {Append(SubSeq(ValidRecord, 1, MaxCut), Cut("mri:abstract")),
          ValidRecord \o <<S("mdb:MD_Metadata"), ETag("mdb:MD_Metadata")>>,
          <<S("mdb:MD_Metadata"), S("mri:abstract"), ETag("mdb:MD_Metadata")>>,
          <<CData("not xml")>>}

----------------------------------------------------------------------------
(* The state machine *)

\* the files on disk: the default file alone with any rule list, or the
\* development file next to a default file that is missing, empty or valid
FileSystems ==
    {[p \in ConfigPaths |-> IF p = DefaultConfigPath THEN d ELSE None] :
        d \in {None} \cup {Some(Toml(l)) : l \in SeqsUpTo(RuleTables, MaxRules)}}
    \cup {[p \in ConfigPaths |-> IF p = DefaultConfigPath THEN d ELSE Some(Toml(DevRules))] :
            d \in {None, Some(Toml(<<>>)), Some(Toml(<<CHOOSE t \in RuleTables : t.field_display_name = "title">>))}}

Init ==
    /\ files \in FileSystems
    /\ loader = ConfigLoaderClass
    /\ validator = None
    /\ last = Call("start", "", Return(None), <<>>)
    /\ memo = None
    /\ workers = <<>>
    /\ job = None
    /\ conn = None

\* the application calls ConfigLoader(path)
LoadConfig(path) ==
    \E c \in {ConfigLoader(loader, files, path)} :
        /\ loader' = c.loader
        /\ last' = Call("ConfigLoader", path, c.out, <<>>)
        /\ UNCHANGED <<files, validator, memo, workers, job, conn>>

\* the application calls GeoNetworkValidator() and keeps the object
NewValidator ==
    \E g \in {GeoNetworkValidator(loader, files)} :
        /\ loader' = g.loader
        /\ validator' = IF IsRaise(g.out) THEN validator ELSE Some(g.out.value)
        /\ memo' = IF IsRaise(g.out) THEN memo ELSE None
        /\ last' = Call("GeoNetworkValidator", "", g.out, <<>>)
        /\ UNCHANGED <<files, workers, job, conn>>

\* the application calls validator.validate(text).  memo keeps the first
\* call on this validator and whether a call on another text came after it.
Validate(text) ==
    /\ ~IsNone(validator)
    /\ \E v \in {validate(Val(validator), text)} :
       /\ last' = Call("validate", text, v.out, v.evaluated)
       /\ memo' = IF IsNone(memo)
                  THEN Some([text |-> text, out |-> v.out, between |-> FALSE])
                  ELSE IF Val(memo).text = text THEN memo
                  ELSE Some([Val(memo) EXCEPT !.between = TRUE])
    /\ UNCHANGED <<files, loader, validator, workers, job, conn>>

\* the calls the application makes, on well-formed and malformed texts
Spec ==
    Init /\ [][\/ \E path \in ConfigPaths : LoadConfig(path)
               \/ NewValidator
               \/ \E text \in WellFormedTexts \cup MalformedTexts : Validate(text)]_vars

----------------------------------------------------------------------------
(* The loop of validate (lines 33-36) on its own: "for rule in self.rules"  *)
(* applied to a parsed document and a list of rule instances of the kind    *)
(* the branches of _set_rules construct.                                    *)

TitleRule ==
    FieldExistsRule(".//mri:citation/cit:CI_Citation/cit:title/gco:CharacterString", "title")

AbstractRule == FieldExistsRule(".//mri:abstract/gco:CharacterString", "abstract")

IdentifierCodeRule ==
    IdentifierRule("mdb:metadataIdentifier/mcc:MD_Identifier/mcc:code/gco:CharacterString",
                   "identifier")

\* a float rule on an attribute path: find raises KeyError for the @ step
ScopeCodeRule ==
    FloatRule(".//mdb:metadataScope/mdb:MD_MetadataScope/mdb:resourceScope/mcc:MD_ScopeCode/@codeListValue",
              "resource type")

RuleInstances == {TitleRule, AbstractRule, IdentifierCodeRule, ScopeCodeRule}

RuleInstanceLists == SeqsUpTo(RuleInstances, MaxRules)

\* the inputs of one run of the loop: a rule list and a well-formed text,
\* the record without title and abstract among them
LoopInit ==
    /\ files = [p \in ConfigPaths |-> IF p = DefaultConfigPath THEN Some(Toml(<<>>)) ELSE None]
    /\ loader = ConfigLoader(ConfigLoaderClass, files, DefaultConfigPath).loader
    /\ validator = None
    /\ \E rules \in RuleInstanceLists,
          text \in WellFormedTexts \cup {Record(None, None, None)} :
          last = Call("start", [rules |-> rules, text |-> text], Return(None), <<>>)
    /\ memo = None
    /\ workers = <<>>
    /\ job = None
    /\ conn = None

\* the loop runs over the rules on the tree parsed from the text, errors
\* being empty
RunLoop ==
    /\ last.op = "start"
    /\ \E r \in {RunRules(last.arg.rules, fromstring(last.arg.text).value, 1,
                          InitialErrors, <<>>)} :
          last' = Call("RunRules", last.arg, r.out, r.evaluated)
    /\ UNCHANGED <<files, loader, validator, memo, workers, job, conn>>

LoopSpec == LoopInit /\ [][RunLoop]_vars

----------------------------------------------------------------------------
(* The rules on their own: rule.validate(record) applied to one rule        *)
(* instance and one parsed document.  The documents are records that hold   *)
(* one field each, the field taking the values the rules tell apart.        *)

\* <t1><t2>...inner...</t2></t1> for tags <<t1, t2, ...>>
RECURSIVE Nest(_, _)
Nest(tags, inner) ==
    IF tags = <<>> THEN inner
    ELSE <<S(Head(tags))>> \o Nest(Tail(tags), inner) \o <<ETag(Head(tags))>>

\* a record whose only field is the element tags lead to, with the given
\* attributes: field None leaves the element out, Some(None) leaves it
\* empty, Some(Some(s)) gives it the text s
FieldDoc(tags, attrs, field) ==
    Nest(<<"mdb:MD_Metadata">>,
         IF IsNone(field) THEN <<>>
         ELSE Nest(SubSeq(tags, 1, Len(tags) - 1),
                   <<STag(tags[Len(tags)], attrs)>>
                   \o (IF IsNone(Val(field)) THEN <<>> ELSE <<CData(Val(Val(field)))>>)
                   \o <<ETag(tags[Len(tags)])>>))

\* the fields of a record the rules look at: the tags that lead to the
\* element, the attributes and the texts it is given
Fields ==
    [identifier |->
        [tags |-> <<"mdb:metadataIdentifier", "mcc:MD_Identifier", "mcc:code",
                    "gco:CharacterString">>,
         attrs |-> {NoAttrs},
         texts |-> {"10.1234/xyz", "http://hdl.handle.net/123", "https://example.org/record",
                    "http://example.org/record", "ftp://example.org", "  ", " 10.1234/xyz"}],
     title |->
        [tags |-> <<"mdb:identificationInfo", "mri:MD_DataIdentification", "mri:citation",
                    "cit:CI_Citation", "cit:title", "gco:CharacterString">>,
         attrs |-> {NoAttrs},
         texts |-> {"  ", "Valid Title", " Valid Title "}],
     scope |->
        [tags |-> <<"mdb:metadataScope", "mdb:MD_MetadataScope", "mdb:resourceScope",
                    "mcc:MD_ScopeCode">>,
         attrs |-> {NoAttrs, [codeList |-> "codelists.xml"]}
                   \cup {[codeListValue |-> v] :
                            v \in {"", "  ", "dataset", " dataset ", "Mosaic"}},
         texts |-> {}],
     license |->
        [tags |-> <<"mri:resourceConstraints", "mco:MD_LegalConstraints", "mco:reference",
                    "cit:CI_Citation", "cit:title", "gco:CharacterString">>,
         attrs |-> {NoAttrs},
         texts |-> {"  ", "AVR transfer agreement", " Data access license agreement ",
                    "Invalid License"}],
     purpose |->
        [tags |-> <<"mdb:identificationInfo", "mri:MD_DataIdentification", "mri:purpose",
                    "gco:CharacterString">>,
         attrs |-> {NoAttrs},
         texts |-> {"ABC1234-567-XYZ, My Project", "ABC1234-567XYZ, My Project",
                    " ABC1234-567-XYZ ,", "ABC1234-567-XYZ", "InvalidPurpose",
                    "abc1234-567-xyz, title", "DAV1707-001-BLX1, title",
                    "ABC1234-567-XYZ, My, Project", ", My Project", "  "}],
     begin |->
        [tags |-> <<"gex:extent", "gml:TimePeriod", "gml:beginPosition">>,
         attrs |-> {NoAttrs},
         texts |-> {"2022-06-15", "15-06-2022", "2022/06/15", "2023-02-29", "  "}],
     west |->
        [tags |-> <<"gex:EX_GeographicBoundingBox", "gex:westBoundLongitude", "gco:Decimal">>,
         attrs |-> {NoAttrs},
         texts |-> {"112.5", " -1e3 ", "abc", "  "}],
     linkage |->
        [tags |-> <<"mrd:onLine", "cit:CI_OnlineResource", "cit:linkage",
                    "gco:CharacterString">>,
         attrs |-> {NoAttrs},
         texts |-> {"https://example.org/data", "ftp://example.org/data", "  "}]]

\* the <cit:citedResponsibleParty> elements of a list of parties, each with
\* its role code and the individual's name, e-mail address and online
\* resource (None when the element is left out)
RECURSIVE Parties(_)
Parties(ps) ==
    IF ps = <<>> THEN <<>>
    ELSE Bind(Head(ps), LAMBDA p :
         Nest(<<"cit:citedResponsibleParty", "cit:CI_Responsibility">>,
              Nest(<<"cit:role">>,
                   <<STag("cit:CI_RoleCode", [codeListValue |-> p.role]),
                     ETag("cit:CI_RoleCode")>>)
              \o Nest(<<"cit:party", "cit:CI_Organisation", "cit:individual",
                        "cit:CI_Individual">>,
                   (IF IsNone(p.name) THEN <<>>
                    ELSE CharacterString("cit:name", Some(Val(p.name))))
                   \o (IF IsNone(p.email) THEN <<>>
                       ELSE CharacterString("cit:electronicMailAddress", Some(Val(p.email))))
                   \o (IF IsNone(p.resource) THEN <<>>
                       ELSE Nest(<<"cit:onlineResource", "cit:CI_OnlineResource">>,
                                 CharacterString("cit:linkage", Some(Val(p.resource).linkage))
                                 \o CharacterString("cit:name", Some(Val(p.resource).name)))))))
         \o Parties(Tail(ps))

\* a record citing the given responsible parties
PartiesDoc(ps) ==
    Nest(<<"mdb:MD_Metadata", "mdb:identificationInfo", "mri:MD_DataIdentification",
           "mri:citation", "cit:CI_Citation">>, Parties(ps))

\* no party, one party, or two parties of which one is an author, an
\* investigator with nothing but a name, or an investigator without a name
PartyLists ==
    LET Investigators ==
            [role : {"principalInvestigator"},
             name : {None, Some("  "), Some("Jane Doe")},
             email : {None, Some("jane.doe@example.org"), Some("invalid-email")},
             resource : {None,
                         Some([name |-> "Orcid",
                               linkage |-> "https://orcid.org/0000-0002-1825-0097"]),
                         Some([name |-> "Orcid", linkage |-> "invalid-orcid"]),
                         Some([name |-> "Website", linkage |-> "https://example.org/jane"])}]
        Author ==
            [role |-> "author", name |-> None, email |-> Some("invalid-email"),
             resource |-> Some([name |-> "Orcid", linkage |-> "invalid-orcid"])]
        Named ==
            [role |-> "principalInvestigator", name |-> Some("Jane Doe"), email |-> None,
             resource |-> None]
        Nameless ==
            [role |-> "principalInvestigator", name |-> None,
             email |-> Some("jane.doe@example.org"), resource |-> None]
    IN  {<<>>, <<Author>>, <<Author, Author>>}
        \cup {<<p>> : p \in Investigators}
        \cup {<<Author, p>> : p \in Investigators}
        \cup {<<Named, p>> : p \in Investigators}
        \cup {<<p, Named>> : p \in Investigators}
        \cup {<<p, Nameless>> : p \in Investigators}

RuleTexts ==
    UNION {{FieldDoc(Fields[k].tags, a, v) :
                a \in Fields[k].attrs,
                v \in {None, Some(None)} \cup {Some(Some(s)) : s \in Fields[k].texts}} :
            k \in DOMAIN Fields}
    \cup {PartiesDoc(ps) : ps \in PartyLists}

\* rule instances as the branches of _set_rules and the tests construct them:
\* every class on an element path, and the classes on an attribute path
CheckedRules ==
    LET Path(k) == ".//" \o Join("/", Fields[k].tags)
        ScopeCodeValue == Path("scope") \o "/@codeListValue"
    IN  {FieldExistsRule(Path("title"), "title"),
         ValueInListRule(Path("license"),
                         <<"AVR transfer agreement", "Data access license agreement">>,
                         "license"),
         FloatRule(Path("west"), "west longitude"),
         DateRule(Path("begin"), "begin date"),
         ValidPurposeRule(Path("purpose"), "purpose"),
         IdentifierRule(Join("/", Fields.identifier.tags), "identifier"),
         CitationRule(Path("linkage"), "citation"),
         PrincipalInvestigatorRule(".//cit:citedResponsibleParty", "principal investigator"),
         FieldExistsRule(ScopeCodeValue, "resource type"),
         ValueInListRule(ScopeCodeValue, <<"dataset", "series">>, "resource type"),
         FloatRule(ScopeCodeValue, "resource type"),
         DateRule(ScopeCodeValue, "resource type"),
         ValidPurposeRule(ScopeCodeValue, "resource type"),
         IdentifierRule(ScopeCodeValue, "resource type")}

\* the inputs of one evaluation: a rule instance and a well-formed text
RuleInit ==
    /\ files = [p \in ConfigPaths |-> IF p = DefaultConfigPath THEN Some(Toml(<<>>)) ELSE None]
    /\ loader = ConfigLoader(ConfigLoaderClass, files, DefaultConfigPath).loader
    /\ validator = None
    /\ \E rule \in CheckedRules, text \in RuleTexts :
          last = Call("start", [rule |-> rule, text |-> text], Return(None), <<>>)
    /\ memo = None
    /\ workers = <<>>
    /\ job = None
    /\ conn = None

\* rule.validate(record) on the tree parsed from the text
Evaluate ==
    /\ last.op = "start"
    /\ \E record \in {fromstring(last.arg.text).value} :
          \E e \in {RuleValidate(last.arg.rule, record)} :
             last' = Call("RuleValidate", last.arg, e, <<>>)
    /\ UNCHANGED <<files, loader, validator, memo, workers, job, conn>>

RuleSpec == RuleInit /\ [][Evaluate]_vars

----------------------------------------------------------------------------
(* Several validate calls in progress on one validator: each worker runs    *)
(* validate(text) on its own text, a step being the parse (lines 25-30),    *)
(* one turn of the loop (lines 33-36) or the return (line 42).  A worker    *)
(* starts at line 25 or, as under LoopSpec, at the loop with its text       *)
(* parsed.  root, errors and the loop index are locals of the call.         *)

MaxWorkers == 2     \* validate calls in progress at once
MaxHits == 2        \* hits a search hands back

ConcInit ==
    /\ files = [p \in ConfigPaths |-> IF p = DefaultConfigPath THEN Some(Toml(<<>>)) ELSE None]
    /\ loader = ConfigLoader(ConfigLoaderClass, files, DefaultConfigPath).loader
    /\ \E rules \in {<<TitleRule, IdentifierCodeRule>>,
                     <<IdentifierCodeRule, ScopeCodeRule, TitleRule>>,
                     <<AbstractRule>>} :
          validator = Some([validator_config |-> Val(loader.validator_config),
                            rules |-> rules])
    /\ last = Call("start", "", Return(None), <<>>)
    /\ memo = None
    /\ workers \in [1..MaxWorkers ->
          {[entry |-> "validate", text |-> t, pc |-> "parse", root |-> None,
            i |-> 1, errors |-> InitialErrors, out |-> Return(None)] :
              t \in {<<CData("not xml")>>, ValidRecord}}
          \cup
          {[entry |-> "loop", text |-> t, pc |-> "rules",
            root |-> Some(fromstring(t).value),
            i |-> 1, errors |-> InitialErrors, out |-> Return(None)] :
              t \in {ValidRecord, Record(None, None, Some(Some("Valid Abstract")))}}]
    /\ job = None
    /\ conn = None

\* lines 25-30 of worker w: errors = [], the parse and the print.  A parse
\* failure returns the result of the except branch; a raise of the print
\* leaves validate.
Parse(w) ==
    /\ workers[w].pc = "parse"
    /\ \E root \in {fromstring(workers[w].text)} :
          IF IsRaise(root)
          THEN workers' = [workers EXCEPT ![w].pc = "done",
                              ![w].errors = Append(InitialErrors, ParseErrorMessage(root)),
                              ![w].out = Return(ParseFailure(InitialErrors, root))]
          ELSE \E shown \in {PrintTitle(root.value)} :
                  IF IsRaise(shown)
                  THEN workers' = [workers EXCEPT ![w].pc = "done",
                                      ![w].errors = InitialErrors,
                                      ![w].root = Some(root.value),
                                      ![w].out = shown]
                  ELSE workers' = [workers EXCEPT ![w].pc = "rules",
                                      ![w].errors = InitialErrors,
                                      ![w].root = Some(root.value)]
    /\ UNCHANGED <<files, loader, validator, last, memo, job, conn>>

\* a faulty variant of the turn of the loop: the error goes to one list
\* that all the calls share
RuleStepShared(w) ==
    /\ workers[w].pc = "rules"
    /\ workers[w].i <= Len(Val(validator).rules)
    /\ \E error \in {RuleValidate(Val(validator).rules[workers[w].i], Val(workers[w].root))} :
          IF IsRaise(error)
          THEN workers' = [workers EXCEPT ![w].pc = "done", ![w].out = error]
          ELSE workers' = [v \in 1..MaxWorkers |->
                  [workers[v] EXCEPT
                      !.i = IF v = w THEN @ + 1 ELSE @,
                      !.errors = IF Truthy(error.value) /\ workers[v].pc # "done"
                                 THEN Append(@, Val(error.value)) ELSE @]]
    /\ UNCHANGED <<files, loader, validator, last, memo, job, conn>>

\* a faulty variant of the turn of the loop: the rule evaluated is taken off
\* self.rules
RuleStepConsuming(w) ==
    /\ workers[w].pc = "rules"
    /\ 1 <= Len(Val(validator).rules)
    /\ \E error \in {RuleValidate(Val(validator).rules[1], Val(workers[w].root))} :
          IF IsRaise(error)
          THEN workers' = [workers EXCEPT ![w].pc = "done", ![w].out = error]
          ELSE workers' = [workers EXCEPT
                  ![w].errors = IF Truthy(error.value)
                                THEN Append(@, Val(error.value)) ELSE @]
    /\ validator' = Some([Val(validator) EXCEPT !.rules = Tail(@)])
    /\ UNCHANGED <<files, loader, last, memo, job, conn>>

\* lines 33-36 of worker w, one turn: error = rule.validate(root) and the
\* append to errors.  A raise of the rule leaves validate.
RuleStep(w) ==
    /\ workers[w].pc = "rules"
    /\ workers[w].i <= Len(Val(validator).rules)
    /\ \E error \in {RuleValidate(Val(validator).rules[workers[w].i], Val(workers[w].root))} :
          IF IsRaise(error)
          THEN workers' = [workers EXCEPT ![w].pc = "done", ![w].out = error]
          ELSE workers' = [workers EXCEPT
                  ![w].i = @ + 1,
                  ![w].errors = IF Truthy(error.value)
                                THEN Append(@, Val(error.value)) ELSE @]
    /\ UNCHANGED <<files, loader, validator, last, memo, job, conn>>

\* line 42 of worker w: the loop is over
Finish(w) ==
    /\ workers[w].pc = "rules"
    /\ workers[w].i > Len(Val(validator).rules)
    /\ workers' = [workers EXCEPT ![w].pc = "done",
          ![w].out = Return(ValidationResult(Len(workers[w].errors) = 0,
                                             workers[w].errors))]
    /\ UNCHANGED <<files, loader, validator, last, memo, job, conn>>

ConcSpec ==
    ConcInit /\ [][\E w \in 1..MaxWorkers : Parse(w) \/ RuleStep(w) \/ Finish(w)]_vars

----------------------------------------------------------------------------
(* src/connector/connector.py: GeoNetworkConnector.  The catalogue is the   *)
(* server behind requests.Session: a response is what one request meets,    *)
(* an exception of session.get / session.post (error), or a status with a   *)
(* body.  Each method gives the connector after the call, the requests it   *)
(* sent and how the call ended.                                             *)

\* self.url.rstrip('/') + '/' + endpoint.lstrip('/')
EndpointUrl(url, endpoint) ==
    LET n == CHOOSE i \in 0..Len(url) :
                 /\ i = 0 \/ Char(url, i) # "/"
                 /\ \A j \in (i + 1)..Len(url) : Char(url, j) = "/"
        m == CHOOSE i \in 1..(Len(endpoint) + 1) :
                 /\ i = Len(endpoint) + 1 \/ Char(endpoint, i) # "/"
                 /\ \A j \in 1..(i - 1) : Char(endpoint, j) = "/"
    IN  SubSeq(url, 1, n) \o "/" \o SubSeq(endpoint, m, Len(endpoint))

\* GeoNetworkConnector(): the loader after the call and Return(connector) or
\* the raise that ended __init__
GeoNetworkConnector(ld, fs) ==
    Bind(ConfigLoader(ld, fs, DefaultConfigPath), LAMBDA c :
    IF IsRaise(c.out) THEN c
    ELSE [loader |-> c.loader,
          out |-> Return([source_config |-> Val(c.loader.source_config),
                          url |-> Val(c.loader.source_config).url,
                          search_endpoint |-> Val(c.loader.source_config).search_endpoint,
                          session |-> [headers |-> [Content_Type |-> "application/json",
                                                    Accept |-> "application/json"]],
                          hit_count |-> 0,
                          filtered_count |-> 0])])

\* a can_connect without raise_for_status: an error status counts as an
\* answer
CanConnectIgnoringStatus(self, response) ==
    [connector |-> self,
     requests |-> <<[method |-> "GET",
                     url |-> EndpointUrl(self.url, self.source_config.test_endpoint),
                     accept |-> self.session.headers.Accept]>>,
     out |-> IF IsNone(response.error) THEN Return(TRUE) ELSE Return(FALSE)]

\* can_connect(): session.get and raise_for_status raise subclasses of
\* RequestException only
GeoNetworkConnector_can_connect(self, response) ==
    [connector |-> self,
     requests |-> <<[method |-> "GET",
                     url |-> EndpointUrl(self.url, self.source_config.test_endpoint),
                     accept |-> self.session.headers.Accept]>>,
     out |-> IF IsNone(response.error) /\ response.status < 400
             THEN Return(TRUE) ELSE Return(FALSE)]

\* get_record(uuid)
GeoNetworkConnector_get_record(self, uuid, response) ==
    Bind([self EXCEPT !.session.headers.Accept = "application/xml"], LAMBDA set :
    [connector |-> set,
     requests |-> <<[method |-> "GET",
                     url |-> EndpointUrl(set.url, set.source_config.get_record_endpoint)
                             \o "/" \o uuid,
                     accept |-> set.session.headers.Accept]>>,
     out |-> IF ~IsNone(response.error)
             THEN [kind |-> "raise", exc |-> "Exception",
                   msg |-> "Error getting record " \o uuid \o ": " \o Val(response.error)]
             ELSE IF response.status >= 400
             THEN [kind |-> "raise", exc |-> "Exception",
                   msg |-> "Error getting record " \o uuid \o ": " \o response.reason]
             ELSE Return(response.text)])

\* _search_records_json(query) with _filter_results and _containts_grdc: a
\* hit is kept when str(value) of one of its values holds a keyword
\* (_is_grdc_metadata gives None).  A hit is {'_id': ..., '_source': {'uuid':
\* ..., 'resourceTitle': ...}}.
GeoNetworkConnector_search_records_json(self, query, response) ==
    Bind([self EXCEPT !.session.headers.Accept = "application/json"], LAMBDA set :
    Bind(<<[method |-> "POST", url |-> EndpointUrl(set.url, set.search_endpoint),
            accept |-> set.session.headers.Accept]>>, LAMBDA sent :
    IF ~IsNone(response.error)
    THEN [connector |-> set, requests |-> sent,
          out |-> [kind |-> "raise", exc |-> "Exception",
                   msg |-> "Error searching for " \o query \o ": " \o Val(response.error)]]
    ELSE IF response.status >= 400
    THEN [connector |-> set, requests |-> sent,
          out |-> [kind |-> "raise", exc |-> "Exception",
                   msg |-> "Error searching for " \o query \o ": " \o response.reason]]
    ELSE IF IsNone(response.hits)
    THEN [connector |-> set, requests |-> sent, out |-> [kind |-> "raise", exc |-> "KeyError", msg |-> "'hits'"]]
    ELSE Bind(SelectSeq(Val(response.hits), LAMBDA result :
                  \E value \in {result._id,
                                "{'uuid': '" \o result._source.uuid
                                \o "', 'resourceTitle': '"
                                \o result._source.resourceTitle \o "'}"} :
                     \E k \in 1..Len(set.source_config.grdc_filter_keywords) :
                        Contains(value, set.source_config.grdc_filter_keywords[k])),
              LAMBDA filtered_hits :
         [connector |-> [set EXCEPT !.hit_count = Len(Val(response.hits)),
                                    !.filtered_count = Len(filtered_hits)],
          requests |-> sent,
          out |-> Return(filtered_hits)])))

\* a faulty variant of _get_records_xml: each record is put in front
RECURSIVE GetRecordsPrepending(_, _, _)
GetRecordsPrepending(got, uuids, records) ==
    IF uuids = <<>> THEN got
    ELSE Bind(GeoNetworkConnector_get_record(got.connector, Head(uuids),
                                             records[Head(uuids)]), LAMBDA g :
         IF IsRaise(g.out)
         THEN [connector |-> g.connector, requests |-> got.requests \o g.requests,
               out |-> g.out]
         ELSE GetRecordsPrepending(
                  [connector |-> g.connector, requests |-> got.requests \o g.requests,
                   out |-> Return(<<g.out.value>> \o got.out.value)],
                  Tail(uuids), records))

\* a faulty variant of _get_records_xml: a record whose request fails is
\* left out
RECURSIVE GetRecordsSkipping(_, _, _)
GetRecordsSkipping(got, uuids, records) ==
    IF uuids = <<>> THEN got
    ELSE Bind(GeoNetworkConnector_get_record(got.connector, Head(uuids),
                                             records[Head(uuids)]), LAMBDA g :
         GetRecordsSkipping(
             [connector |-> g.connector, requests |-> got.requests \o g.requests,
              out |-> IF IsRaise(g.out) THEN got.out
                      ELSE Return(Append(got.out.value, g.out.value))],
             Tail(uuids), records))

\* _get_records_xml(uuids): got is the connector, the requests sent and the
\* records fetched so far; records is what the catalogue answers for a uuid
RECURSIVE GeoNetworkConnector_get_records_xml(_, _, _)
GeoNetworkConnector_get_records_xml(got, uuids, records) ==
    IF uuids = <<>> THEN got
    ELSE Bind(GeoNetworkConnector_get_record(got.connector, Head(uuids),
                                             records[Head(uuids)]), LAMBDA g :
         IF IsRaise(g.out)
         THEN [connector |-> g.connector, requests |-> got.requests \o g.requests,
               out |-> g.out]
         ELSE GeoNetworkConnector_get_records_xml(
                  [connector |-> g.connector, requests |-> got.requests \o g.requests,
                   out |-> Return(Append(got.out.value, g.out.value))],
                  Tail(uuids), records))

\* search_records(query), _get_uuids_from_records included
GeoNetworkConnector_search_records(self, query, response, records) ==
    Bind(GeoNetworkConnector_search_records_json(
             [self EXCEPT !.session.headers.Accept = "application/xml"],
             query, response), LAMBDA json_records :
    IF IsRaise(json_records.out) THEN json_records
    ELSE GeoNetworkConnector_get_records_xml(
             [connector |-> json_records.connector, requests |-> json_records.requests,
              out |-> Return(<<>>)],
             [i \in 1..Len(json_records.out.value) |->
                 json_records.out.value[i]._source.uuid],
             records))

\* what the catalogue answers: to the request of the site endpoint, to the
\* search (the hits, or a failure) and to the request of each record.  A
\* request ends in a connection error, in an error status or in a body.
Catalogues ==
    LET Hit(uuid, title) ==
            [_id |-> uuid, _source |-> [uuid |-> uuid, resourceTitle |-> title]]
        Ok(text, hits) ==
            [error |-> None, status |-> 200, reason |-> "OK", text |-> text, hits |-> hits]
        NotFound ==
            [error |-> None, status |-> 404, reason |-> "404 Client Error: Not Found",
             text |-> <<>>, hits |-> None]
        Refused ==
            [error |-> Some("Connection refused"), status |-> 0, reason |-> "",
             text |-> <<>>, hits |-> None]
        \* a record whose contact has the role processor and names an
        \* individual and an organisation
        ContactRecord ==
            <<S("mdb:MD_Metadata"), S("mdb:contact"), S("cit:CI_Responsibility"),
              S("cit:role"), STag("cit:CI_RoleCode", [codeListValue |-> "processor"]),
              ETag("cit:CI_RoleCode"), ETag("cit:role"),
              S("cit:party"), S("cit:CI_Organisation")>>
            \o CharacterString("cit:name", Some("GRDC"))
            \o <<S("cit:individual"), S("cit:CI_Individual")>>
            \o CharacterString("cit:name", Some("Pat Lee"))
            \o <<ETag("cit:CI_Individual"), ETag("cit:individual"),
                 ETag("cit:CI_Organisation"), ETag("cit:party"),
                 ETag("cit:CI_Responsibility"), ETag("mdb:contact"),
                 ETag("mdb:MD_Metadata")>>
    IN  {[site |-> site, search |-> search, records |-> records] :
            site \in {Ok(<<>>, None), NotFound, Refused},
            search \in {Ok(<<>>, Some(hits)) :
                           hits \in SeqsUpTo({Hit("uuid1", "GRDC wheat trial"),
                                              Hit("uuid2", "Barley survey"),
                                              Hit("uuid3", "Grains storage")}, MaxHits)}
                       \cup {Ok(<<>>, None), NotFound, Refused},
            records \in {[uuid1 |-> Ok(ValidRecord, None),
                          uuid2 |-> Ok(ValidRecord, None),
                          uuid3 |-> Ok(<<CData("not xml")>>, None)],
                         [uuid1 |-> Ok(ContactRecord, None),
                          uuid2 |-> NotFound,
                          uuid3 |-> NotFound],
                         [uuid1 |-> Refused,
                          uuid2 |-> Ok(ValidRecord, None),
                          uuid3 |-> Ok(ValidRecord, None)]}}

\* program start: the default configuration file exists or not, and no
\* connector is constructed yet
ConnInit ==
    /\ files \in {[p \in ConfigPaths |-> IF p = DefaultConfigPath THEN d ELSE None] :
                    d \in {None, Some(Toml(<<>>))}}
    /\ loader = ConfigLoaderClass
    /\ validator = None
    /\ last = Call("start", "", Return(None), <<>>)
    /\ memo = None
    /\ workers = <<>>
    /\ job = None
    /\ conn = None

\* the application constructs GeoNetworkConnector() and then calls
\* can_connect(), get_record(uuid) and search_records(query) in any order;
\* last holds the requests the call sent
ConnNext ==
    \/ /\ IsNone(conn)
       /\ last.op = "start"
       /\ \E g \in {GeoNetworkConnector(loader, files)} :
             /\ loader' = g.loader
             /\ conn' = IF IsRaise(g.out) THEN conn ELSE Some(g.out.value)
             /\ last' = Call("GeoNetworkConnector", "", g.out, <<>>)
       /\ UNCHANGED <<files, validator, memo, workers, job>>
    \/ /\ ~IsNone(conn)
       /\ \E site \in {web.site : web \in Catalogues} :
          \E r \in {GeoNetworkConnector_can_connect(Val(conn), site)} :
             /\ conn' = Some(r.connector)
             /\ last' = Call("can_connect", site, r.out, r.requests)
       /\ UNCHANGED <<files, loader, validator, memo, workers, job>>
    \/ /\ ~IsNone(conn)
       /\ \E records \in {web.records : web \in Catalogues} :
          \E uuid \in DOMAIN records :
          \E r \in {GeoNetworkConnector_get_record(Val(conn), uuid, records[uuid])} :
             /\ conn' = Some(r.connector)
             /\ last' = Call("get_record", [uuid |-> uuid, response |-> records[uuid]],
                             r.out, r.requests)
       /\ UNCHANGED <<files, loader, validator, memo, workers, job>>
    \/ /\ ~IsNone(conn)
       /\ \E web \in {[search |-> w.search, records |-> w.records] : w \in Catalogues} :
          \E r \in {GeoNetworkConnector_search_records(
                        Val(conn), "{'size': 100}", web.search, web.records)} :
             /\ conn' = Some(r.connector)
             /\ last' = Call("search_records", web, r.out, r.requests)
       /\ UNCHANGED <<files, loader, validator, memo, workers, job>>

ConnSpec == ConnInit /\ [][ConnNext]_vars

----------------------------------------------------------------------------
(* src/batch.py: BatchJob.  The connector and the notification service are  *)
(* the collaborators handed to the constructor.  The connector is what the  *)
(* catalogue lets it answer to can_connect and search_records, with the     *)
(* calls it received; the service is the list of notify_ calls it received. *)
(* _set_since and _log_state read the clock and print: they are left out.   *)

\* InvalidRecordDetails(*args): a dataclass of four fields
InvalidRecordDetails(args) ==
    IF Len(args) # 4 THEN Raise("TypeError")
    ELSE Return([record_id |-> args[1], processor_name |-> args[2],
                 errors |-> args[3], record_link |-> args[4]])

\* BatchJob(connector, notifications): the loader after the call and
\* Return(job) or the raise that ended __init__
BatchJob(ld, fs, connector, notifications) ==
    Bind(GeoNetworkValidator(ld, fs), LAMBDA g :
    IF IsRaise(g.out) THEN g
    ELSE Bind(ConfigLoader(g.loader, fs, DefaultConfigPath), LAMBDA c :
         IF IsRaise(c.out) THEN c
         ELSE [loader |-> c.loader,
               out |-> Return([connector |-> connector,
                               validator |-> g.out.value,
                               notifications |-> notifications,
                               connection_success |-> FALSE,
                               search_hits |-> <<>>,
                               base_url |-> Val(c.loader.source_config).url])]))

\* _get_delta_records: the job after the call
BatchJob_get_delta_records(self) ==
    Bind([self EXCEPT !.connector.calls =
                          Append(@, [method |-> "can_connect", args |-> <<>>]),
                      !.connection_success = self.connector.reachable], LAMBDA asked :
    IF ~asked.connection_success
    THEN [asked EXCEPT !.notifications =
             Append(@, [method |-> "notify_connection_error",
                        args |-> <<"Failed to connect to GeoNetwork.">>])]
    ELSE Bind([asked EXCEPT !.connector.calls =
                  Append(Append(@, [method |-> "construct_query", args |-> <<>>]),
                         [method |-> "search_records", args |-> <<>>])],
              LAMBDA searched :
         IF ~IsRaise(self.connector.search)
         THEN [searched EXCEPT !.search_hits = self.connector.search.value]
         ELSE IF self.connector.search.exc = "ConnectorError"
         THEN [searched EXCEPT !.notifications =
                  Append(@, [method |-> "notify_connection_error",
                             args |-> <<self.connector.search.msg>>])]
         ELSE [searched EXCEPT !.notifications =
                  Append(@, [method |-> "notify_connection_error",
                             args |-> <<"Unexpected error: "
                                        \o self.connector.search.msg>>])]))

BatchJob_extract_id(self, record) ==
    Bind(find(record, 0,
              "mdb:metadataIdentifier/mcc:MD_Identifier/mcc:code/gco:CharacterString",
              namespaces).value, LAMBDA node :
        IF ~IsNone(node) /\ Truthy(NodeText(record, Val(node)))
        THEN Val(NodeText(record, Val(node)))
        ELSE "Unknown_ID")

\* the loop of _extract_processor_name over the contacts
RECURSIVE ProcessorNameFrom(_, _)
ProcessorNameFrom(record, contacts) ==
    IF contacts = <<>> THEN "Unknown Processor"
    ELSE
    Bind(find(record, Head(contacts), "cit:role/cit:CI_RoleCode", namespaces).value,
         LAMBDA role_code :
    IF IsNone(role_code)
       \/ NodeGet(record, Val(role_code), "codeListValue") # Some("processor")
    THEN ProcessorNameFrom(record, Tail(contacts))
    ELSE
    Bind(find(record, Head(contacts),
              "cit:party/cit:CI_Organisation/cit:individual/cit:CI_Individual/cit:name/gco:CharacterString",
              namespaces).value, LAMBDA name_node :
    IF ~IsNone(name_node) /\ Truthy(NodeText(record, Val(name_node)))
    THEN Val(NodeText(record, Val(name_node)))
    ELSE
    Bind(find(record, Head(contacts),
              "cit:party/cit:CI_Organisation/cit:name/gco:CharacterString",
              namespaces).value, LAMBDA org_node :
    IF ~IsNone(org_node) /\ Truthy(NodeText(record, Val(org_node)))
    THEN Val(NodeText(record, Val(org_node)))
    ELSE ProcessorNameFrom(record, Tail(contacts)))))

BatchJob_extract_processor_name(self, record) ==
    ProcessorNameFrom(record,
        findall(record, 0, ".//mdb:contact/cit:CI_Responsibility", namespaces).value)

\* lines 90-94: base_url without trailing slashes and without the API
\* path, then the path of the record in the catalogue
RecordLink(base_url, record_id) ==
    Bind(SubSeq(base_url, 1,
                CHOOSE k \in 0..Len(base_url) :
                    /\ k > 0 => SubSeq(base_url, k, k) # "/"
                    /\ \A j \in (k + 1)..Len(base_url) : SubSeq(base_url, j, j) = "/"),
         LAMBDA base :
        (IF /\ Len(base) >= Len("/geonetwork/srv/api")
            /\ SubSeq(base, Len(base) - Len("/geonetwork/srv/api") + 1, Len(base))
                  = "/geonetwork/srv/api"
         THEN Join("", Split(base, "/geonetwork/srv/api"))
         ELSE base)
        \o "/geonetwork/srv/eng/catalog.search#/metadata/" \o record_id)

\* _validate_record(record): Return([is_valid, details]) or the raise that
\* ended it
BatchJob_validate_record(self, record) ==
    Bind(validate(self.validator, record).out, LAMBDA result :
    IF IsRaise(result) THEN result
    ELSE IF result.value.is_valid THEN Return([is_valid |-> TRUE, details |-> None])
    ELSE Bind(fromstring(record), LAMBDA record_element :
         IF IsRaise(record_element)
         THEN Bind(InvalidRecordDetails(<<"Unknown", "Unknown", "Unknown",
                                          <<"XML Parse Error">>, "">>), LAMBDA details :
              IF IsRaise(details) THEN details
              ELSE Return([is_valid |-> FALSE, details |-> Some(details.value)]))
         ELSE Bind(BatchJob_extract_id(self, record_element.value), LAMBDA record_id :
              Bind(InvalidRecordDetails(<<record_id,
                        BatchJob_extract_processor_name(self, record_element.value),
                        result.value.errors,
                        RecordLink(self.base_url, record_id)>>), LAMBDA details :
              IF IsRaise(details) THEN details
              ELSE Return([is_valid |-> FALSE, details |-> Some(details.value)])))))

\* the loop of run from the k-th hit on and the summary after it: the job
\* after the call and how the call ended.  The BatchStats are handed over
\* without start_time and end_time.
RECURSIVE RunFrom(_, _, _, _)
RunFrom(self, k, valid_count, invalid_records) ==
    IF k > Len(self.search_hits)
    THEN [job |-> [self EXCEPT !.notifications =
                      Append(@, [method |-> "notify_batch_summary",
                                 args |-> <<[total_records |-> Len(self.search_hits),
                                             valid_count |-> valid_count,
                                             invalid_count |-> Len(invalid_records)],
                                            invalid_records>>])],
          out |-> Return(None)]
    ELSE Bind(BatchJob_validate_record(self, self.search_hits[k]), LAMBDA r :
         IF IsRaise(r) THEN [job |-> self, out |-> r]
         ELSE IF r.value.is_valid
         THEN RunFrom(self, k + 1, valid_count + 1, invalid_records)
         ELSE RunFrom([self EXCEPT !.notifications =
                          Append(@, [method |-> "notify_record_processor_error",
                                     args |-> <<Val(r.value.details),
                                                "placeholder@example.com">>])],
                      k + 1, valid_count, Append(invalid_records, Val(r.value.details))))

\* BatchJob.run()
BatchJob_run(self) == RunFrom(BatchJob_get_delta_records(self), 1, 0, <<>>)

\* the connector handed to BatchJob: the GeoNetworkConnector() of the loaded
\* configuration with a catalogue behind it, which answers can_connect and
\* search_records as the catalogue lets it, or a connector whose search
\* raises ConnectorError
Connectors ==
    {[reachable |-> GeoNetworkConnector_can_connect(c, web.site).out.value,
      search |-> GeoNetworkConnector_search_records(c, "{'size': 100}", web.search,
                                                    web.records).out,
      web |-> Some(web), calls |-> <<>>] :
        web \in Catalogues, c \in {GeoNetworkConnector(loader, files).out.value}}
    \cup {[reachable |-> TRUE,
           search |-> [kind |-> "raise", exc |-> "ConnectorError",
                       msg |-> "Error getting record uuid1"],
           web |-> None, calls |-> <<>>]}

\* the default configuration is loaded: without rules, with a rule of an
\* unknown kind, or with a field_exists rule
BatchInit ==
    /\ files \in {[p \in ConfigPaths |-> IF p = DefaultConfigPath THEN Some(Toml(l)) ELSE None] :
                    l \in {<<>>, DevRules,
                           <<CHOOSE t \in RuleTables : t.field_display_name = "title">>}}
    /\ loader = ConfigLoader(ConfigLoaderClass, files, DefaultConfigPath).loader
    /\ validator = None
    /\ last = Call("start", "", Return(None), <<>>)
    /\ memo = None
    /\ workers = <<>>
    /\ job = None
    /\ conn = None

\* the application calls BatchJob(connector, notifications) and keeps the
\* object
NewBatchJob ==
    /\ last.op = "start"
    /\ \E connector \in Connectors :
       \E b \in {BatchJob(loader, files, connector, <<>>)} :
          /\ loader' = b.loader
          /\ job' = IF IsRaise(b.out) THEN job ELSE Some(b.out.value)
          /\ last' = Call("BatchJob", connector, b.out, <<>>)
    /\ UNCHANGED <<files, validator, memo, workers, conn>>

\* the application calls batch_job.run()
Run ==
    /\ ~IsNone(job)
    /\ last.op = "BatchJob"
    /\ \E r \in {BatchJob_run(Val(job))} :
          /\ job' = Some(r.job)
          /\ last' = Call("run", "", r.out, <<>>)
    /\ UNCHANGED <<files, loader, validator, memo, workers, conn>>

BatchSpec == BatchInit /\ [][NewBatchJob \/ Run]_vars

----------------------------------------------------------------------------
(* The properties.  Under Spec, last is the call the application made last; *)
(* under LoopSpec it is one run of the loop of validate.                    *)

\* the text parses as XML
WellFormed(text) == ~IsRaise(fromstring(text))

\* validate was the last call and handed back a ValidationResult
Returned == last.op = "validate" /\ last.out.kind = "return"

\* the rule definitions the loader holds once a configuration is loaded
ConfiguredRules ==
    IF loader._initialized THEN Val(loader.validator_config).rules ELSE <<>>

\* GeoNetworkValidator() was the last call, made on a loaded configuration
Constructing == last.op = "GeoNetworkValidator" /\ loader._initialized

\* C1: every ValidationResult returned by validate has is_valid true exactly
\* when its errors list is empty
C1_ValidIffNoErrors ==
    Returned => (last.out.value.is_valid <=> last.out.value.errors = <<>>)

\* a returned result that is invalid and carries an error
C1_Witness ==
    Returned /\ ~last.out.value.is_valid /\ Len(last.out.value.errors) > 0

\* what the rules from the i-th on report on root, in rule order, one entry
\* for each rule that reports
RECURSIVE ReportsFrom(_, _, _)
ReportsFrom(rules, root, i) ==
    IF i > Len(rules) THEN <<>>
    ELSE Bind(RuleValidate(rules[i], root), LAMBDA error :
         (IF ~IsRaise(error) /\ Truthy(error.value) THEN <<Val(error.value)>> ELSE <<>>)
         \o ReportsFrom(rules, root, i + 1))

\* C2: for every parseable document validate returns an errors list that
\* holds the reports of the configured rules in rule order, at most one
\* entry for each rule
C2_ErrorsInRuleOrder ==
    (last.op = "validate" /\ WellFormed(last.arg)) =>
        /\ last.out.kind = "return"
        /\ last.out.value.errors =
              ReportsFrom(Val(validator).rules, fromstring(last.arg).value, 1)

\* C3: for a text that does not parse, validate returns is_valid false with
\* exactly one error, which begins with "XML Parse Error", and evaluates no
\* rule
C3_ParseFailureReported ==
    (last.op = "validate" /\ ~WellFormed(last.arg)) =>
        /\ last.out.kind = "return"
        /\ ~last.out.value.is_valid
        /\ Len(last.out.value.errors) = 1
        /\ StartsWith(last.out.value.errors[1], "XML Parse Error")
        /\ last.evaluated = <<>>

\* validate has answered a document whose end tag does not match
C3_Witness ==
    /\ last.op = "validate"
    /\ ~WellFormed(last.arg)
    /\ last.out.kind = "return"
    /\ last.out.value.errors = <<"XML Parse Error: mismatched tag">>

\* C4: on a parseable document the loop of validate evaluates every
\* configured rule, also those configured after a rule that raises
C4_LaterRulesStillEvaluated ==
    last.op = "RunRules" =>
        last.evaluated = [i \in 1..Len(last.arg.rules) |-> i]

\* C5: validate returns a ValidationResult for every input text; no
\* exception leaves it
C5_ValidateAlwaysReturns ==
    last.op = "validate" => last.out.kind = "return"

\* every rule of the list reports nothing on root
SatisfiesAll(rules, root) ==
    \A i \in 1..Len(rules) : RuleValidate(rules[i], root) = Return(None)

\* C6: for a document that satisfies every configured rule, validate
\* returns is_valid = true and errors = []
C6_SatisfyingDocumentIsValid ==
    (/\ last.op = "validate"
     /\ WellFormed(last.arg)
     /\ SatisfiesAll(Val(validator).rules, fromstring(last.arg).value)) =>
        last.out = Return(ValidationResult(TRUE, <<>>))

\* the element the definition's path names is absent from the document or
\* has no text
FieldMissing(d, root) ==
    Bind(find(root, 0, d.xpath, namespaces), LAMBDA node :
        ~IsRaise(node) /\ BlankText(root, node.value))

\* validate of validator v on text returns, reports the missing field of
\* definition d and has evaluated each of the n rules
ReportsMissing(v, text, d, n) ==
    Bind(validate(v, text), LAMBDA r :
        /\ r.out.kind = "return"
        /\ \E e \in Range(r.out.value.errors) :
              Contains(e, "missing a " \o d.field_display_name)
        /\ r.evaluated = [i \in 1..n |-> i])

\* C7: a validator built from a configuration with a FieldExists rule
\* reports, for every parseable document missing that rule's field, the
\* "missing a {field}" message, having evaluated every configured rule
C7_MissingFieldReported ==
    (Constructing /\ \E i \in 1..Len(ConfiguredRules) :
                        ConfiguredRules[i].type = "field_exists") =>
        /\ last.out.kind = "return"
        /\ \A i \in 1..Len(ConfiguredRules) : \A text \in WellFormedTexts :
              (/\ ConfiguredRules[i].type = "field_exists"
               /\ FieldMissing(ConfiguredRules[i], fromstring(text).value)) =>
                  ReportsMissing(last.out.value, text, ConfiguredRules[i],
                                 Len(ConfiguredRules))

RecognizedKinds ==
    {"field_exists", "value_in_list", "float", "date", "valid_purpose",
     "identifier", "citation", "principal_investigator"}

\* C9: constructing the validator from a configuration that holds a rule of
\* an unrecognized kind fails
C9_UnknownKindFailsConstruction ==
    (Constructing /\ \E i \in 1..Len(ConfiguredRules) :
                        ConfiguredRules[i].type \notin RecognizedKinds) =>
        last.out.kind = "raise"

\* the rule instance a definition of a recognized kind names
RuleOf(d) ==
    CASE d.type = "field_exists" -> FieldExistsRule(d.xpath, d.field_display_name)
      [] d.type = "value_in_list" ->
            ValueInListRule(d.xpath, d.allowed_values, d.field_display_name)
      [] d.type = "float" -> FloatRule(d.xpath, d.field_display_name)
      [] d.type = "date" -> DateRule(d.xpath, d.field_display_name)
      [] d.type = "valid_purpose" -> ValidPurposeRule(d.xpath, d.field_display_name)
      [] d.type = "identifier" -> IdentifierRule(d.xpath, d.field_display_name)
      [] d.type = "citation" -> CitationRule(d.xpath, d.field_display_name)
      [] d.type = "principal_investigator" ->
            PrincipalInvestigatorRule(d.xpath, d.field_display_name)

\* C10: constructed from definitions of recognized kinds only, the validator
\* holds one rule for each definition, in order, of the definition's kind and
\* bound to its path, display name and allowed values
C10_RulesMatchDefinitions ==
    (Constructing /\ \A i \in 1..Len(ConfiguredRules) :
                        ConfiguredRules[i].type \in RecognizedKinds) =>
        /\ last.out.kind = "return"
        /\ last.out.value.rules =
              [i \in 1..Len(ConfiguredRules) |-> RuleOf(ConfiguredRules[i])]

----------------------------------------------------------------------------
(* The properties of the rules.  Under RuleSpec, last is one evaluation of  *)
(* a rule: last.arg.rule on the tree parsed from last.arg.text.             *)

Evaluated == last.op = "RuleValidate"

EvaluatedTree == fromstring(last.arg.text).value

\* the element part of a path: the path without its "/@name" ending
ElementPart(xpath) == IF Contains(xpath, "/@") THEN Split(xpath, "/@")[1] ELSE xpath

\* the attribute a path names, None for an element path
AttributePart(xpath) == IF Contains(xpath, "/@") THEN Some(Split(xpath, "/@")[2]) ELSE None

\* the elements of the tree the element part of the path leads to
Matches(xpath, tree) == findall(tree, 0, ElementPart(xpath), namespaces).value

RequiresValue(rule) ==
    rule.cls \in {"FieldExistsRule", "ValueInListRule", "FloatRule", "DateRule",
                  "ValidPurposeRule", "IdentifierRule"}

\* the evaluation returned an error message
IsError(out) == out.kind = "return" /\ ~IsNone(out.value) /\ Val(out.value) # ""

\* C11: a rule that requires a value, evaluated on a document in which its
\* path matches no element, returns a non-empty error message and does not
\* raise.
C11_AbsenceReported ==
    (Evaluated /\ RequiresValue(last.arg.rule)
        /\ Matches(last.arg.rule.xpath, EvaluatedTree) = <<>>)
    => IsError(last.out)

\* the text of the element the path resolves to (the first match), None
\* when there is no match or the element is empty
ResolvedText(xpath, tree) ==
    Bind(Matches(xpath, tree), LAMBDA m :
        IF m = <<>> THEN None ELSE NodeText(tree, m[1]))

\* the evaluation of a rule of class cls on an element path, the element
\* being there with a text that is not blank
EvaluatedOnText(cls) ==
    /\ Evaluated
    /\ last.arg.rule.cls = cls
    /\ IsNone(AttributePart(last.arg.rule.xpath))
    /\ Truthy(ResolvedText(last.arg.rule.xpath, EvaluatedTree))
    /\ Strip(Val(ResolvedText(last.arg.rule.xpath, EvaluatedTree))) # ""

EvaluatedText == Val(ResolvedText(last.arg.rule.xpath, EvaluatedTree))

\* C12: the Identifier rule returns no error when the text starts with "10.",
\* with "http://hdl.handle.net/", with "http://" or with "https://", and an
\* "invalid identifier: {text}" error exactly when the text, not being empty,
\* starts with none of them.
C12_IdentifierPrefixes ==
    EvaluatedOnText("IdentifierRule")
    => IF \E prefix \in {"10.", "http://hdl.handle.net/", "http://", "https://"} :
              StartsWith(EvaluatedText, prefix)
       THEN last.out = Return(None)
       ELSE /\ IsError(last.out)
            /\ Contains(Val(last.out.value), "invalid identifier: " \o Strip(EvaluatedText))

\* the value a path resolves to: the text of the first element its element
\* part matches or, for a path ending in /@name, that element's attribute;
\* None when there is no such element, text or attribute
ResolvedValue(xpath, tree) ==
    Bind(Matches(xpath, tree), LAMBDA m :
        IF m = <<>> THEN None
        ELSE IF IsNone(AttributePart(xpath)) THEN NodeText(tree, m[1])
        ELSE NodeGet(tree, m[1], Val(AttributePart(xpath))))

EvaluatedValue == ResolvedValue(last.arg.rule.xpath, EvaluatedTree)

\* C13: the FieldExists rule returns no error if and only if its path
\* resolves to a text, or for a /@name path to an attribute value, that is
\* neither empty nor only whitespace; otherwise it returns an error that
\* contains "missing a {field}".
C13_FieldExistsIffValue ==
    (Evaluated /\ last.arg.rule.cls = "FieldExistsRule")
    => IF Truthy(EvaluatedValue) /\ Strip(Val(EvaluatedValue)) # ""
       THEN last.out = Return(None)
       ELSE /\ IsError(last.out)
            /\ Contains(Val(last.out.value), "missing a " \o last.arg.rule.field_name)

\* a FieldExists rule reported an element whose text is only whitespace
C13_Witness ==
    /\ Evaluated
    /\ last.arg.rule.cls = "FieldExistsRule"
    /\ IsNone(AttributePart(last.arg.rule.xpath))
    /\ EvaluatedValue = Some("  ")
    /\ last.out = Return(Some("Record is missing a title"))

\* C14: the ValueInList rule returns no error if and only if the resolved
\* text or attribute value, trimmed, is one of the allowed values; a value
\* that is there and is not one of them gives the "invalid {field}:
\* '{value}'. Allowed values are: {list}" error, and a value that is absent
\* or empty gives a missing-field error.
C14_ValueInListIffMember ==
    (Evaluated /\ last.arg.rule.cls = "ValueInListRule")
    => IF ~Truthy(EvaluatedValue)
       THEN /\ IsError(last.out)
            /\ Contains(Val(last.out.value),
                        "Record is missing " \o last.arg.rule.field_display_name)
       ELSE IF \E i \in 1..Len(last.arg.rule.allowed_values) :
                   last.arg.rule.allowed_values[i] = Strip(Val(EvaluatedValue))
       THEN last.out = Return(None)
       ELSE /\ IsError(last.out)
            /\ Contains(Val(last.out.value),
                        "invalid " \o last.arg.rule.field_display_name \o ": '"
                        \o Strip(Val(EvaluatedValue)) \o "'. Allowed values are: "
                        \o Join(", ", last.arg.rule.allowed_values))

\* a ValueInList rule accepted an attribute value that is an allowed value
\* only once trimmed
C14_Witness ==
    /\ Evaluated
    /\ last.arg.rule.cls = "ValueInListRule"
    /\ EvaluatedValue = Some(" dataset ")
    /\ last.out = Return(None)

\* 3 uppercase letters, 4 digits, a hyphen, 3 digits, an optional hyphen and
\* 3 uppercase letters
IsContractCode(c) ==
    \E h \in {"", "-"} :
        /\ Len(c) = 14 + Len(h)
        /\ AllIn(SubSeq(c, 1, 3), Upper)
        /\ AllIn(SubSeq(c, 4, 7), Digits)
        /\ SubSeq(c, 8, 8) = "-"
        /\ AllIn(SubSeq(c, 9, 11), Digits)
        /\ SubSeq(c, 12, 11 + Len(h)) = h
        /\ AllIn(SubSeq(c, 12 + Len(h), 14 + Len(h)), Upper)

Commas(s) == {i \in 1..Len(s) : SubSeq(s, i, i) = ","}

\* the part of s before its first comma, trimmed
CodePart(s) == Strip(SubSeq(s, 1, (CHOOSE i \in Commas(s) : \A j \in Commas(s) : i <= j) - 1))

IsInvestigator(p) == p.role = "principalInvestigator"

\* the party has a name, and an e-mail address with "@" if it has one
SoundNameAndEmail(p) ==
    /\ ~IsNone(p.name) /\ Strip(Val(p.name)) # ""
    /\ IsNone(p.email) \/ Contains(Val(p.email), "@")

\* the party has an online resource labelled as its ORCID whose linkage does
\* not contain "orcid.org"
BadOrcid(p) ==
    /\ ~IsNone(p.resource)
    /\ Val(p.resource).name \in {"Orcid", "Orchid"}
    /\ ~Contains(Val(p.resource).linkage, "orcid.org")

Investigators(ps) == {i \in 1..Len(ps) : IsInvestigator(ps[i])}

FirstFailure(p) ==
    IF IsNone(p.name) \/ Strip(Val(p.name)) = ""
    THEN "Principal Investigator must have a name"
    ELSE IF ~IsNone(p.email) /\ ~Contains(Val(p.email), "@")
    THEN "Principal Investigator has invalid email: " \o Val(p.email)
    ELSE "Principal Investigator has invalid ORCID URL: " \o Val(p.resource).linkage

Failing(ps) == {i \in Investigators(ps) : ~SoundNameAndEmail(ps[i]) \/ BadOrcid(ps[i])}

\* C17: the PrincipalInvestigator rule reports only the first failing check
\* of a PI party, in the order name, e-mail, ORCID: a bad e-mail hides a bad
\* ORCID, and a missing name hides both.
C17_FirstFailureOnly ==
    (Evaluated /\ last.arg.rule.cls = "PrincipalInvestigatorRule")
    => \A ps \in PartyLists :
          (last.arg.text = PartiesDoc(ps) /\ Failing(ps) # {})
          => last.out = Return(Some(FirstFailure(
                 ps[CHOOSE i \in Failing(ps) : \A j \in Failing(ps) : i <= j])))

\* a named investigator with a bad e-mail address and a bad ORCID linkage
\* was reported for the e-mail address
C17_Witness ==
    /\ Evaluated
    /\ last.arg.rule.cls = "PrincipalInvestigatorRule"
    /\ \E ps \in PartyLists :
          /\ last.arg.text = PartiesDoc(ps)
          /\ \E i \in Investigators(ps) :
                /\ ~IsNone(ps[i].name) /\ Strip(Val(ps[i].name)) # ""
                /\ ps[i].email = Some("invalid-email")
                /\ BadOrcid(ps[i])
    /\ last.out = Return(Some("Principal Investigator has invalid email: invalid-email"))

----------------------------------------------------------------------------
(* The properties of validate calls in progress together, under ConcSpec *)

\* the loop of worker w has evaluated a rule
RuleEvaluated(w) ==
    /\ workers[w].pc # "parse"
    /\ ~IsNone(workers[w].root)
    /\ \/ workers[w].i > 1
       \/ workers[w].pc = "done" /\ workers[w].entry = "loop"

\* what validate gives for the text of worker w when no other call is in
\* progress; for a worker that started at the loop, what the loop gives
Alone(w) ==
    IF workers[w].entry = "validate"
    THEN validate(Val(validator), workers[w].text).out
    ELSE RunRules(Val(validator).rules, fromstring(workers[w].text).value, 1,
                  InitialErrors, <<>>).out

C19_AsIfAlone ==
    \A w \in 1..MaxWorkers :
        /\ workers[w].pc = "done" => workers[w].out = Alone(w)
        /\ (workers[w].pc = "rules" /\ Alone(w).kind = "return") =>
              /\ Len(workers[w].errors) <= Len(Alone(w).value.errors)
              /\ workers[w].errors =
                    SubSeq(Alone(w).value.errors, 1, Len(workers[w].errors))

\* two calls are in the loop together, each past a rule that gave an error
\* for its own document, and no error is in both lists
C19_Witness ==
    \E v, w \in 1..MaxWorkers :
        /\ v # w
        /\ workers[v].pc = "rules" /\ workers[w].pc = "rules"
        /\ workers[v].i > 1 /\ workers[w].i > 1
        /\ Len(workers[v].errors) > 0
        /\ Len(workers[w].errors) > 0
        /\ \A k \in 1..Len(workers[v].errors), l \in 1..Len(workers[w].errors) :
              workers[v].errors[k] # workers[w].errors[l]

----------------------------------------------------------------------------
(* The properties of BatchJob, under BatchSpec *)

\* run was the last call; the documents it went over are the job's hits
RunOver == last.op = "run"

\* what the job's validator gives for a document
Verdict(text) == validate(Val(job).validator, text).out

\* the documents among the hits that the validator finds invalid, in fetch
\* order
InvalidHits ==
    SelectSeq(Val(job).search_hits,
              LAMBDA text : Verdict(text).kind = "return" /\ ~Verdict(text).value.is_valid)

\* the notify_batch_summary calls the notification service received
Summaries ==
    SelectSeq(Val(job).notifications, LAMBDA n : n.method = "notify_batch_summary")

\* C20: after run over the fetched documents, whatever they are, a batch
\* summary was handed over whose total_records is the number of documents
\* and the sum of valid_count and invalid_count, and whose invalid records
\* are the invalid documents one for one in fetch order, each with the
\* errors the validator returned for the document and, when the document
\* parses, its identifier and the name of its processor contact.
C20_SummaryMatchesDocuments ==
    RunOver =>
        /\ \A k \in 1..Len(Val(job).search_hits) :
              Verdict(Val(job).search_hits[k]).kind = "return"
        /\ Len(Summaries) = 1
        /\ Summaries[1].args[1].total_records = Len(Val(job).search_hits)
        /\ Summaries[1].args[1].total_records
              = Summaries[1].args[1].valid_count + Summaries[1].args[1].invalid_count
        /\ Summaries[1].args[1].invalid_count = Len(InvalidHits)
        /\ Len(Summaries[1].args[2]) = Len(InvalidHits)
        /\ \A k \in 1..Len(InvalidHits) :
              /\ Summaries[1].args[2][k].errors = Verdict(InvalidHits[k]).value.errors
              /\ WellFormed(InvalidHits[k]) =>
                    /\ Summaries[1].args[2][k].record_id
                          = BatchJob_extract_id(Val(job), fromstring(InvalidHits[k]).value)
                    /\ Summaries[1].args[2][k].processor_name
                          = BatchJob_extract_processor_name(Val(job),
                                fromstring(InvalidHits[k]).value)

----------------------------------------------------------------------------
(* The messages of a validator of FieldExists rules, under LoopSpec *)

\* the loop ran over a list of FieldExists rules
FieldExistsLoop ==
    /\ last.op = "RunRules"
    /\ last.arg.rules # <<>>
    /\ \A i \in 1..Len(last.arg.rules) : last.arg.rules[i].cls = "FieldExistsRule"

\* the rules of the list whose field the document misses: the element is
\* absent or has no text
MissingFields ==
    {i \in 1..Len(last.arg.rules) :
        FieldMissing(last.arg.rules[i], fromstring(last.arg.text).value)}

\* the message the tests expect for a missing field
MissingMessage(field) == "Record is missing a " \o field \o "."

\* C21: a validator of FieldExists rules gives, for a document missing
\* exactly the fields of the rules in S, is_valid false when S is not empty
\* and exactly |S| errors, each "Record is missing a {field}." for one
\* field of S
C21_MissingFieldMessages ==
    FieldExistsLoop =>
        /\ last.out.kind = "return"
        /\ last.out.value.is_valid = (MissingFields = {})
        /\ Len(last.out.value.errors) = Cardinality(MissingFields)
        /\ \A e \in Range(last.out.value.errors) :
              \E i \in MissingFields : e = MissingMessage(last.arg.rules[i].field_name)
        /\ \A i \in MissingFields :
              MissingMessage(last.arg.rules[i].field_name) \in Range(last.out.value.errors)

----------------------------------------------------------------------------
(* The properties of GeoNetworkConnector, under ConnSpec: last is the call  *)
(* made last, last.arg what the catalogue answered, last.evaluated the      *)
(* requests sent.                                                           *)

\* the request met a connection error or an error status
RequestFailed(response) == ~IsNone(response.error) \/ response.status >= 400

\* C22: get_record raises a ConnectorError whose message contains "Error
\* getting record {uuid}" when the request fails, and returns the response
\* text unchanged when it succeeds
C22_GetRecordOutcome ==
    last.op = "get_record" =>
        IF RequestFailed(last.arg.response)
        THEN /\ last.out.kind = "raise"
             /\ last.out.exc = "ConnectorError"
             /\ Contains(last.out.msg, "Error getting record " \o last.arg.uuid)
        ELSE last.out = Return(last.arg.response.text)

\* the hits that hold one of the keywords
HitsWith(hits, keywords) ==
    SelectSeq(hits, LAMBDA hit :
        \E keyword \in Range(keywords) :
            \/ Contains(hit._id, keyword)
            \/ Contains(hit._source.uuid, keyword)
            \/ Contains(hit._source.resourceTitle, keyword))

\* the hits of the search response that hold a keyword of the configuration
KeptHits ==
    HitsWith(Val(last.arg.search.hits), Val(conn).source_config.grdc_filter_keywords)

\* search_records returned
Searched == last.op = "search_records" /\ last.out.kind = "return"

\* C23: search_records returns one document for each kept hit, in the order
\* of the hits: the i-th document is the text fetched for the uuid of the
\* i-th kept hit, by the i-th record request
C23_OneDocumentPerKeptHit ==
    Searched =>
        /\ Len(last.out.value) = Len(KeptHits)
        /\ Len(last.evaluated) = Len(KeptHits) + 1
        /\ \A i \in 1..Len(KeptHits) :
              /\ last.out.value[i] = last.arg.records[KeptHits[i]._source.uuid].text
              /\ last.evaluated[i + 1].method = "GET"
              /\ last.evaluated[i + 1].url =
                    EndpointUrl(Val(conn).url, Val(conn).source_config.get_record_endpoint)
                    \o "/" \o KeptHits[i]._source.uuid

\* a search returned two different documents
C23_Witness ==
    /\ Searched
    /\ Len(last.out.value) = 2
    /\ last.out.value[1] # last.out.value[2]
    /\ Len(Val(last.arg.search.hits)) = 2

\* C24: when search_records returns, and after every get_record call, the
\* Accept header of the session is "application/xml"
C24_AcceptXmlAfterCall ==
    (Searched \/ last.op = "get_record") =>
        Val(conn).session.headers.Accept = "application/xml"

----------------------------------------------------------------------------
(* The PrincipalInvestigator rule over several parties, under RuleSpec *)

\* the PrincipalInvestigator rule was evaluated on the record citing ps
InvestigatorsChecked(ps) ==
    /\ Evaluated
    /\ last.arg.rule.cls = "PrincipalInvestigatorRule"
    /\ last.arg.text = PartiesDoc(ps)

\* C25: the PrincipalInvestigator rule passes only if every party with the
\* PI role passes the name, e-mail and ORCID checks; an error of a party is
\* the error of a PI party that fails with no failing PI party before it;
\* and the parties without the PI role change nothing: the outcome is the
\* outcome on the record that cites the PI parties alone.
C25_EveryInvestigatorChecked ==
    \A ps \in PartyLists :
       InvestigatorsChecked(ps)
       => /\ last.out = Return(None)
             => /\ Investigators(ps) # {}
                /\ \A i \in Investigators(ps) :
                      SoundNameAndEmail(ps[i]) /\ ~BadOrcid(ps[i])
          /\ (/\ IsError(last.out)
              /\ Val(last.out.value) # "Record must have at least one Principal Investigator")
             => \E i \in Failing(ps) :
                   /\ Val(last.out.value) = FirstFailure(ps[i])
                   /\ \A j \in Investigators(ps) : j < i => j \notin Failing(ps)
          /\ last.out = PrincipalInvestigatorRule_validate(
                            last.arg.rule,
                            fromstring(PartiesDoc(SelectSeq(ps, IsInvestigator))).value)

\* a record citing a sound investigator and then one that fails a check was
\* reported for the second
C25_Witness ==
    \E ps \in PartyLists :
       /\ InvestigatorsChecked(ps)
       /\ Investigators(ps) = {1, 2}
       /\ Failing(ps) = {2}
       /\ last.out = Return(Some(FirstFailure(ps[2])))

----------------------------------------------------------------------------
(* The notifications of a run of BatchJob, under BatchSpec *)

\* the calls of one method the notification service received
Notified(method) ==
    SelectSeq(Val(job).notifications, LAMBDA n : n.method = method)

\* the summary of a run over no document
EmptySummary ==
    [method |-> "notify_batch_summary",
     args |-> <<[total_records |-> 0, valid_count |-> 0, invalid_count |-> 0], <<>>>>]

\* the catalogue behind the job's GeoNetworkConnector
Web == Val(Val(job).connector.web)

\* the hits the search of that catalogue answers with
WebHits ==
    IF RequestFailed(Web.search) \/ IsNone(Web.search.hits) THEN <<>>
    ELSE HitsWith(Val(Web.search.hits),
                  Val(loader.source_config).grdc_filter_keywords)

\* C26: in every run, one notify_record_processor_error call is made for
\* each invalid document, in fetch order, none for a valid document, and
\* one notify_batch_summary call is made, after all of them.
C26_OneNotificationPerInvalidDocument ==
    RunOver =>
        /\ last.out = Return(None)
        /\ Len(Notified("notify_record_processor_error")) = Len(InvalidHits)
        /\ \A k \in 1..Len(InvalidHits) :
              Notified("notify_record_processor_error")[k].args[1].errors
                  = Verdict(InvalidHits[k]).value.errors
        /\ Len(Summaries) = 1
        /\ Val(job).notifications[Len(Val(job).notifications)].method
              = "notify_batch_summary"

\* C27: when the request of the site endpoint fails, can_connect returns
\* False, and run sends one connection-error notification, calls neither
\* construct_query nor search_records, validates nothing and sends one
\* summary with total_records = valid_count = invalid_count = 0.
C27_UnreachableCatalogue ==
    (RunOver /\ ~IsNone(Val(job).connector.web) /\ RequestFailed(Web.site))
    => /\ Val(job).connection_success = FALSE
       /\ Val(job).connector.calls = <<[method |-> "can_connect", args |-> <<>>]>>
       /\ Val(job).search_hits = <<>>
       /\ Val(job).notifications
             = <<[method |-> "notify_connection_error",
                  args |-> <<"Failed to connect to GeoNetwork.">>],
                 EmptySummary>>
       /\ last.out = Return(None)

\* run ended with the summary after the catalogue refused the connection
C27_Witness ==
    /\ RunOver
    /\ ~IsNone(Val(job).connector.web)
    /\ ~IsNone(Web.site.error)
    /\ ~RequestFailed(Web.search)
    /\ Notified("notify_batch_summary") = <<EmptySummary>>

\* C28: when the search request or the request of one of the records
\* fails, search_records raises, and run sends one connection-error
\* notification, keeps search_hits empty and sends the summary of no
\* document.
C28_FailedSearchOrFetch ==
    RunOver =>
        /\ (/\ ~IsNone(Val(job).connector.web)
            /\ \/ RequestFailed(Web.search)
               \/ \E i \in 1..Len(WebHits) :
                     RequestFailed(Web.records[WebHits[i]._source.uuid]))
           => IsRaise(Val(job).connector.search)
        /\ (Val(job).connection_success /\ IsRaise(Val(job).connector.search))
           => /\ Val(job).search_hits = <<>>
              /\ Len(Val(job).notifications) = 2
              /\ Val(job).notifications[1].method = "notify_connection_error"
              /\ Val(job).notifications[1].args
                    \in {<<Val(job).connector.search.msg>>,
                         <<"Unexpected error: " \o Val(job).connector.search.msg>>}
              /\ Val(job).notifications[2] = EmptySummary
              /\ last.out = Return(None)

\* the first record was fetched, the request of the second failed, and run
\* ended with the summary of no document
C28_Witness ==
    /\ RunOver
    /\ ~IsNone(Val(job).connector.web)
    /\ Val(job).connection_success
    /\ Len(WebHits) = 2
    /\ ~RequestFailed(Web.records[WebHits[1]._source.uuid])
    /\ RequestFailed(Web.records[WebHits[2]._source.uuid])
    /\ Val(job).notifications[Len(Val(job).notifications)] = EmptySummary

\* C29: when a fetched document is not XML, run goes over every document
\* and sends the summary, in which each such document is an invalid record
\* with the errors ["XML Parse Error"] and the placeholder "Unknown" for its
\* id and its processor.
C29_UnparseableDocumentCounted ==
    (RunOver /\ \E k \in 1..Len(Val(job).search_hits) :
                    ~WellFormed(Val(job).search_hits[k]))
    => /\ last.out = Return(None)
       /\ Len(Summaries) = 1
       /\ Summaries[1].args[1].total_records = Len(Val(job).search_hits)
       /\ Summaries[1].args[1].invalid_count >=
             Len(SelectSeq(Val(job).search_hits, LAMBDA text : ~WellFormed(text)))
       /\ \E k \in 1..Len(Summaries[1].args[2]) :
             /\ Summaries[1].args[2][k].errors = <<"XML Parse Error">>
             /\ Summaries[1].args[2][k].record_id = "Unknown"
             /\ Summaries[1].args[2][k].processor_name = "Unknown"

----------------------------------------------------------------------------
(* The ConfigLoader singleton, under Spec *)

\* what a loader initialized from the file at path holds
LoadedFrom(path) ==
    /\ loader._instance
    /\ loader.config_path = Some(path)
    /\ ~IsNone(files[path])
    /\ loader._config = files[path]
    /\ loader.source_config = Some(ConfigLoader_load_source_config(Val(files[path])))
    /\ loader.notifications_config
          = Some(ConfigLoader_load_notifications_config(Val(files[path])))
    /\ loader.validator_config
          = Some(ConfigLoader_load_validator_config(Val(files[path])))

\* C30: over any sequence of calls, the file is read by the first
\* ConfigLoader(...) call that succeeds and by none after it: until then
\* the loader holds no configuration, from then on it holds the
\* configuration of that call's file, and every later call, whatever its
\* config_path and whether or not that file exists, returns the instance
\* and leaves config_path, source_config, notifications_config and
\* validator_config as they are.
C30_LoadedOnce ==
    [][/\ ~loader._initialized
          => /\ IsNone(loader._config)
             /\ IsNone(loader.source_config)
             /\ IsNone(loader.notifications_config)
             /\ IsNone(loader.validator_config)
       /\ (~loader._initialized /\ loader'._initialized)
          => \E path \in ConfigPaths :
                /\ last' = Call("ConfigLoader", path, Return("ConfigLoader"), <<>>)
                   \/ (last'.op = "GeoNetworkValidator" /\ path = DefaultConfigPath)
                /\ LoadedFrom(path)'
       /\ loader._initialized
          => /\ loader' = loader
             /\ last'.op = "ConfigLoader" => last'.out = Return("ConfigLoader")]_vars

\* ConfigLoader was called with the path of another existing file, of other
\* content, after the configuration was loaded, and the loader still holds
\* the configuration loaded first
C30_Witness ==
    /\ last.op = "ConfigLoader"
    /\ last.out = Return("ConfigLoader")
    /\ loader._initialized
    /\ loader.config_path # Some(last.arg)
    /\ ~IsNone(files[last.arg])
    /\ files[last.arg] # loader._config
    /\ LoadedFrom(Val(loader.config_path))

====
